---- MODULE Spec2Model ----
(***************************************************************************)
(* Model of the DMGT basic-form response store: the two Lambda revisions   *)
(*   enh_*  infrastructure/lambda-responses-enhanced.py   (key scheme A)   *)
(*   idx_*  infrastructure/lambda/responses-function/index.py (scheme B)   *)
(* over one S3 bucket.  Python strings are sequences of tokens (a token is *)
(* a run of characters that no split/replace of the code cuts through),    *)
(* JSON values are tagged records, dicts are functions on their keys.      *)
(***************************************************************************)
EXTENDS Integers, Sequences, FiniteSets, TLC

VARIABLES rev, store, now, nops, req, resp, calls, procs

vars == <<rev, store, now, nops, req, resp, calls, procs>>

(***************************************************************************)
(* Bounds of the model.                                                    *)
(***************************************************************************)
MaxOps == 2

(***************************************************************************)
(* JSON / Python values.                                                   *)
(***************************************************************************)
None == [t |-> "none"]
IntV(n) == [t |-> "int", v |-> n]
StrV(s) == [t |-> "str", v |-> s]
BoolV(b) == [t |-> "bool", v |-> b]

\* The two form types.
Company == StrV(<<"company">>)

Employee == StrV(<<"employee">>)

\* Python dict.get(key, default)
Get(d, k, default) == IF k \in DOMAIN d THEN d[k] ELSE default

\* Python truthiness of a JSON scalar: None, 0, "" and False are falsy.
Truthy(x) ==
    CASE x.t = "none" -> FALSE
      [] x.t = "int" -> x.v # 0
      [] x.t = "str" -> x.v # <<>>
      [] x.t = "bool" -> x.v

Digits == <<"0", "1", "2", "3", "4", "5", "6", "7", "8", "9">>

DigitSet == {Digits[i] : i \in 1..10}

DigitVal(c) == (CHOOSE i \in 1..10 : Digits[i] = c) - 1

RECURSIVE NatToStr(_)
NatToStr(n) == IF n < 10 THEN <<Digits[n + 1]>>
               ELSE NatToStr(n \div 10) \o <<Digits[(n % 10) + 1]>>

\* Python str(x), as the f-strings that build the keys apply it.
Str(x) ==
    CASE x.t = "none" -> <<"None">>
      [] x.t = "int" -> IF x.v < 0 THEN <<"-">> \o NatToStr(-x.v) ELSE NatToStr(x.v)
      [] x.t = "str" -> x.v
      [] x.t = "bool" -> IF x.v THEN <<"True">> ELSE <<"False">>

\* str.strip(): leading and trailing blanks removed.
RECURSIVE Strip(_)
Strip(s) ==
    IF s = <<>> THEN s
    ELSE IF Head(s) = " " THEN Strip(Tail(s))
    ELSE IF s[Len(s)] = " " THEN Strip(SubSeq(s, 1, Len(s) - 1))
    ELSE s

\* str.split(sep) for a one-token separator: the list of pieces.
RECURSIVE SplitRec(_, _, _, _, _)
SplitRec(s, sep, i, cur, acc) ==
    IF i > Len(s) THEN Append(acc, cur)
    ELSE IF s[i] = sep THEN SplitRec(s, sep, i + 1, <<>>, Append(acc, cur))
    ELSE SplitRec(s, sep, i + 1, Append(cur, s[i]), acc)

Split(s, sep) == SplitRec(s, sep, 1, <<>>, <<>>)

\* str.replace('.json', ''): every occurrence of the two tokens removed.
RECURSIVE RemoveDotJson(_)
RemoveDotJson(s) ==
    IF Len(s) < 2 THEN s
    ELSE IF s[1] = "." /\ s[2] = "json" THEN RemoveDotJson(SubSeq(s, 3, Len(s)))
    ELSE <<s[1]>> \o RemoveDotJson(Tail(s))

StartsWith(s, p) == Len(p) <= Len(s) /\ SubSeq(s, 1, Len(p)) = p

\* LET name == v IN F(name): the value is computed once and named.
Let(v, F(_)) == F(v)

RECURSIVE DigitsVal(_)
DigitsVal(s) == IF s = <<>> THEN 0
                ELSE 10 * DigitsVal(SubSeq(s, 1, Len(s) - 1)) + DigitVal(s[Len(s)])

IsDigits(s) == s # <<>> /\ \A i \in 1..Len(s) : s[i] \in DigitSet

IsSigned(u) == u # <<>> /\ Head(u) \in {"-", "+"}

\* Python int(s): blanks stripped, an optional sign, then digits; anything
\* else raises ValueError (ok = FALSE).
ParseInt(s) ==
    Let(Strip(s), LAMBDA u :
    Let(IF IsSigned(u) THEN Tail(u) ELSE u, LAMBDA d :
        IF IsDigits(d)
        THEN [ok |-> TRUE,
              v |-> IF IsSigned(u) /\ Head(u) = "-" THEN -DigitsVal(d) ELSE DigitsVal(d)]
        ELSE [ok |-> FALSE, v |-> 0]))

\* max(a, b)
Max(a, b) == IF b > a THEN b ELSE a

\* The running max_id = max(max_id, employee_id) of the id loops, from the
\* loop's start value.
MaxFrom(S, start) ==
    IF S = {} THEN start
    ELSE Max(start, CHOOSE x \in S : \A y \in S : y <= x)

(***************************************************************************)
(* The bucket: a function from the keys present to the object stored.      *)
(* list_objects_v2(Prefix) returns the keys that start with the prefix.    *)
(***************************************************************************)
ListKeys(st, prefix) == {k \in DOMAIN st : StartsWith(k, prefix)}

\* A put that keeps an object already stored under the key.
PutIfAbsent(st, k, obj) == IF k \in DOMAIN st THEN st ELSE (k :> obj) @@ st

\* put_object: the whole object is replaced.
PutObject(st, k, obj) == [x \in (DOMAIN st) \cup {k} |-> IF x = k THEN obj ELSE st[x]]

(***************************************************************************)
(* Key naming, scheme A (enhanced revision) and scheme B (index revision). *)
(***************************************************************************)
enh_company_key(company_id) == Str(company_id) \o <<"/", "company", ".", "json">>

enh_employee_prefix(company_id) == Str(company_id) \o <<"/", "employee_">>

enh_employee_key(company_id, employee_id) ==
    enh_employee_prefix(company_id) \o Str(employee_id) \o <<".", "json">>

idx_company_key(company_id) ==
    <<"company-responses", "/">> \o Str(company_id) \o <<".", "json">>

idx_employee_prefix(company_id) ==
    <<"employee-responses", "/">> \o Str(company_id) \o <<"/">>

idx_employee_key(company_id, employee_id) ==
    idx_employee_prefix(company_id) \o Str(employee_id) \o <<".", "json">>

(***************************************************************************)
(* Identifier assignment.                                                  *)
(***************************************************************************)
\* int(file_key.split('employee_')[1].split('.')[0])
enh_parse_employee_id(file_key) ==
    Let(Split(file_key, "employee_"), LAMBDA parts :
        IF Len(parts) < 2 THEN [ok |-> FALSE, v |-> 0]
        ELSE ParseInt(Split(parts[2], ".")[1]))

\* The ids of the keys whose suffix parses; the others are skipped.
enh_listed_ids(keys) ==
    {p.v : p \in {q \in {enh_parse_employee_id(k) : k \in keys} : q.ok}}

enh_next_id(keys) == IF keys = {} THEN 0 ELSE MaxFrom(enh_listed_ids(keys), -1) + 1

enh_get_next_employee_id(st, company_id, listFails) ==
    IF listFails THEN 0
    ELSE enh_next_id(ListKeys(st, enh_employee_prefix(company_id)))

\* key.split('/')[-1].replace('.json', '')
idx_employee_id_str(key) ==
    Let(Split(key, "/"), LAMBDA parts : RemoveDotJson(parts[Len(parts)]))

\* int(employee_id_str)
idx_parse_employee_id(key) == ParseInt(idx_employee_id_str(key))

idx_listed_ids(keys) ==
    {p.v : p \in {q \in {idx_parse_employee_id(k) : k \in keys} : q.ok}}

idx_next_id(keys) == MaxFrom(idx_listed_ids(keys), 0) + 1

FallbackModulus == 10000

\* The fallback of a failed listing: int(datetime.utcnow().timestamp()) % 10000
idx_get_next_employee_id(st, company_id, listFails, t) ==
    IF listFails THEN t % FallbackModulus
    ELSE idx_next_id(ListKeys(st, idx_employee_prefix(company_id)))

(***************************************************************************)
(* Completion percentage.                                                  *)
(***************************************************************************)
\* `r and str(r).strip()` of the answered-count comprehensions.
Answered(r) == Truthy(r) /\ Strip(Str(r)) # <<>>

AnsweredCount(responses) == Cardinality({q \in DOMAIN responses : Answered(responses[q])})

RECURSIVE Gcd(_, _)
Gcd(a, b) == IF b = 0 THEN a ELSE Gcd(b, a % b)

Reduce(n, d, g) == [n |-> n \div g, d |-> d \div g]

\* A number as a fraction in lowest terms (d > 0); an int n is n/1.
Frac(n, d) == Reduce(n, d, Gcd(n, d))

Num(n) == [n |-> n, d |-> 1]

FracLess(a, b) == a.n * b.d < b.n * a.d

\* The division done in integers before the multiplication by 100.
enh_percentage_divided_first(answered_responses, total_responses) ==
    IF total_responses > 0
    THEN Num((answered_responses \div total_responses) * 100)
    ELSE Num(0)

\* int(answered / total * 100): the float product truncated.  For fewer than
\* 50 entries the truncation equals the floor of the exact quotient (the
\* first mapping where the float product falls short has 29 of 50 answered).
enh_percentage(answered_responses, total_responses) ==
    IF total_responses > 0
    THEN Num((answered_responses * 100) \div total_responses)
    ELSE Num(0)

enh_completion_percentage(responses) ==
    enh_percentage(AnsweredCount(responses), Cardinality(DOMAIN responses))

\* (answered / total * 100): the float quotient, kept unrounded.
idx_percentage(answered_questions, total_questions) ==
    IF total_questions > 0
    THEN Frac(answered_questions * 100, total_questions)
    ELSE Num(0)

idx_completion_percentage(responses) ==
    idx_percentage(AnsweredCount(responses), Cardinality(DOMAIN responses))

(***************************************************************************)
(* Objects and responses.                                                  *)
(***************************************************************************)
\* json.dumps(doc) as the stored body; json.loads gives the document back
\* and raises on an object that is not JSON text.
JsonDumps(doc) == [json |-> doc]

IsJson(obj) == "json" \in DOMAIN obj

JsonLoads(obj) == obj.json

NoSuchKey(st, k) == k \notin DOMAIN st

Call(op, key) == [op |-> op, key |-> key]

enh_cors_headers ==
    [AccessControlAllowOrigin |-> "*",
     AccessControlAllowHeaders |-> "Content-Type",
     AccessControlAllowMethods |-> "OPTIONS,POST,GET",
     ContentType |-> "application/json"]

cors_response(status_code, body) ==
    [statusCode |-> status_code, headers |-> enh_cors_headers, body |-> body]

\* What one invocation yields: its response, the bucket afterwards and the
\* storage calls it made, in order.
Outcome(r, st, cs) == [resp |-> r, store |-> st, calls |-> cs]

\* A storage call of kind `op` fails (with an error other than NoSuchKey)
\* when the invocation's fault names that kind.
Fails(fail, op) == fail = op

(***************************************************************************)
(* Enhanced revision: save_response.                                       *)
(***************************************************************************)
enh_save_failed(msg, st, cs) ==
    Outcome(cors_response(500, [error |-> <<"Failed to save response: ", msg>>]), st, cs)

\* company_data['fileUploads'] is created in the record just built.
enh_file_uploads(data, file_metadata) ==
    IF file_metadata # None
    THEN data @@ ("fileUploads" :> (file_metadata.questionId :> file_metadata))
    ELSE data

\* The creation time taken from the clock on every save.
enh_timestamp_refreshed(existing_data, timestamp) == timestamp

\* existing_data.get('timestamp', timestamp) if existing_data else timestamp
enh_timestamp(existing_data, timestamp) ==
    IF existing_data # None THEN Get(existing_data, "timestamp", timestamp) ELSE timestamp

\* In progress from the first answer on, with no upper limit.
enh_in_progress_unbounded(completion_percentage) ==
    FracLess(Num(0), completion_percentage)

\* 'inProgress': completion_percentage > 0 and completion_percentage < 100
enh_in_progress(completion_percentage) ==
    FracLess(Num(0), completion_percentage) /\ FracLess(completion_percentage, Num(100))

\* The record completed as soon as every question is answered.
enh_company_data_autocompleted(body, existing_data, timestamp, completion_percentage) ==
    enh_file_uploads(
        [companyId |-> body.companyId,
         formType |-> body.formType,
         timestamp |-> enh_timestamp(existing_data, timestamp),
         lastModified |-> timestamp,
         responses |-> body.responses,
         completionPercentage |-> completion_percentage,
         inProgress |-> enh_in_progress(completion_percentage),
         explicitlyCompleted |-> completion_percentage = Num(100)],
        Get(body, "fileMetadata", None))

enh_company_data(body, existing_data, timestamp, completion_percentage) ==
    enh_file_uploads(
        [companyId |-> body.companyId,
         formType |-> body.formType,
         timestamp |-> enh_timestamp(existing_data, timestamp),
         lastModified |-> timestamp,
         responses |-> body.responses,
         completionPercentage |-> completion_percentage,
         inProgress |-> enh_in_progress(completion_percentage),
         explicitlyCompleted |-> FALSE],
        Get(body, "fileMetadata", None))

enh_put_company(st, filename, company_data, fail) ==
    IF Fails(fail, "put")
    THEN enh_save_failed("ClientError", st, <<Call("get", filename), Call("put", filename)>>)
    ELSE Outcome(
           cors_response(200,
               [message |-> "Company response saved successfully",
                filename |-> filename,
                completionPercentage |-> company_data.completionPercentage,
                inProgress |-> company_data.inProgress,
                explicitlyCompleted |-> company_data.explicitlyCompleted]),
           PutObject(st, filename, JsonDumps(company_data)),
           <<Call("get", filename), Call("put", filename)>>)

enh_save_company(st, body, timestamp, fail) ==
    Let(enh_company_key(body.companyId), LAMBDA filename :
        IF Fails(fail, "get") THEN enh_save_failed("ClientError", st, <<Call("get", filename)>>)
        ELSE IF ~NoSuchKey(st, filename) /\ ~IsJson(st[filename])
        THEN enh_save_failed("JSONDecodeError", st, <<Call("get", filename)>>)
        ELSE enh_put_company(st, filename,
                 enh_company_data(body,
                     IF NoSuchKey(st, filename) THEN None ELSE JsonLoads(st[filename]),
                     timestamp, enh_completion_percentage(body.responses)),
                 fail))

enh_employee_data(body, final_employee_id, existing_employee_data, timestamp) ==
    enh_file_uploads(
        [companyId |-> body.companyId,
         employeeId |-> final_employee_id,
         formType |-> body.formType,
         timestamp |-> enh_timestamp(existing_employee_data, timestamp),
         lastModified |-> timestamp,
         responses |-> body.responses],
        Get(body, "fileMetadata", None))

enh_put_employee(st, filename, employee_data, fail, got) ==
    IF Fails(fail, "put")
    THEN enh_save_failed("ClientError", st, Append(got, Call("put", filename)))
    ELSE Outcome(
           cors_response(200,
               [message |-> "Employee response saved successfully",
                filename |-> filename,
                employeeId |-> employee_data.employeeId]),
           PutObject(st, filename, JsonDumps(employee_data)),
           Append(got, Call("put", filename)))

\* is_new_employee and employee_id is None
enh_assigns(body) ==
    Truthy(Get(body, "isNewEmployee", BoolV(FALSE))) /\ Get(body, "employeeId", None) = None

enh_save_employee_as(st, body, timestamp, fail, final_employee_id, listed) ==
    Let(enh_employee_key(body.companyId, final_employee_id), LAMBDA filename :
    Let(Append(listed, Call("get", filename)), LAMBDA got :
        IF Fails(fail, "get") THEN enh_save_failed("ClientError", st, got)
        ELSE IF ~NoSuchKey(st, filename) /\ ~IsJson(st[filename])
        THEN enh_save_failed("JSONDecodeError", st, got)
        ELSE enh_put_employee(st, filename,
                 enh_employee_data(body, final_employee_id,
                     IF NoSuchKey(st, filename) THEN None ELSE JsonLoads(st[filename]),
                     timestamp),
                 fail, got)))

enh_save_employee(st, body, timestamp, fail) ==
    IF enh_assigns(body)
    THEN enh_save_employee_as(st, body, timestamp, fail,
             IntV(enh_get_next_employee_id(st, body.companyId, Fails(fail, "list"))),
             <<Call("list", enh_employee_prefix(body.companyId))>>)
    ELSE enh_save_employee_as(st, body, timestamp, fail, Get(body, "employeeId", None), <<>>)

\* body['companyId'], body['formType'] and body['responses'] are read before
\* the try block: a missing one is a KeyError that lambda_handler catches.
enh_save_response(st, body, timestamp, fail) ==
    IF "companyId" \notin DOMAIN body
    THEN Outcome(cors_response(500, [error |-> <<"'companyId'">>]), st, <<>>)
    ELSE IF "formType" \notin DOMAIN body
    THEN Outcome(cors_response(500, [error |-> <<"'formType'">>]), st, <<>>)
    ELSE IF "responses" \notin DOMAIN body
    THEN Outcome(cors_response(500, [error |-> <<"'responses'">>]), st, <<>>)
    ELSE IF body.formType = Company
    THEN enh_save_company(st, body, timestamp, fail)
    ELSE enh_save_employee(st, body, timestamp, fail)

(***************************************************************************)
(* Enhanced revision: the fetches and the status query.                    *)
(***************************************************************************)
\* The exception answered without its message.
enh_unhandled_masked(msg, st, cs) ==
    Outcome(cors_response(500, [error |-> <<"Internal server error">>]), st, cs)

\* An exception that reaches lambda_handler's except clause.
enh_unhandled(msg, st, cs) == Outcome(cors_response(500, [error |-> <<msg>>]), st, cs)

enh_employee_found(employee_data, employee_id) ==
    cors_response(200,
        [found |-> TRUE,
         employeeData |-> employee_data,
         responses |-> Get(employee_data, "responses", <<>>),
         lastModified |-> Get(employee_data, "lastModified", None),
         employeeId |-> employee_id])

enh_fetch_employee(st, filename, employee_id, fail) ==
    IF Fails(fail, "get") THEN enh_unhandled("ClientError", st, <<Call("get", filename)>>)
    ELSE IF NoSuchKey(st, filename)
    THEN Outcome(cors_response(200, [found |-> FALSE, message |-> "No employee found"]),
                 st, <<Call("get", filename)>>)
    ELSE IF ~IsJson(st[filename])
    THEN enh_unhandled("JSONDecodeError", st, <<Call("get", filename)>>)
    ELSE Outcome(enh_employee_found(JsonLoads(st[filename]), employee_id),
                 st, <<Call("get", filename)>>)

enh_get_employee_data(st, query_params, fail) ==
    IF ~Truthy(Get(query_params, "companyId", None))
       \/ Get(query_params, "employeeId", None) = None
    THEN Outcome(cors_response(400, [error |-> <<"companyId and employeeId required">>]),
                 st, <<>>)
    ELSE enh_fetch_employee(st,
             enh_employee_key(query_params.companyId, query_params.employeeId),
             query_params.employeeId, fail)

enh_company_found(company_data) ==
    cors_response(200,
        [found |-> TRUE,
         companyData |-> company_data,
         responses |-> Get(company_data, "responses", <<>>),
         lastModified |-> Get(company_data, "lastModified", None),
         completionPercentage |-> Get(company_data, "completionPercentage", Num(0)),
         inProgress |-> Get(company_data, "inProgress", FALSE),
         explicitlyCompleted |-> Get(company_data, "explicitlyCompleted", FALSE)])

\* The absent key handled like every other failed read.
enh_fetch_company_raising(st, filename, fail) ==
    IF Fails(fail, "get") \/ NoSuchKey(st, filename)
    THEN enh_unhandled("ClientError", st, <<Call("get", filename)>>)
    ELSE IF ~IsJson(st[filename])
    THEN enh_unhandled("JSONDecodeError", st, <<Call("get", filename)>>)
    ELSE Outcome(enh_company_found(JsonLoads(st[filename])), st, <<Call("get", filename)>>)

enh_fetch_company(st, filename, fail) ==
    IF Fails(fail, "get") THEN enh_unhandled("ClientError", st, <<Call("get", filename)>>)
    ELSE IF NoSuchKey(st, filename)
    THEN Outcome(cors_response(200, [found |-> FALSE, message |-> "No company data found"]),
                 st, <<Call("get", filename)>>)
    ELSE IF ~IsJson(st[filename])
    THEN enh_unhandled("JSONDecodeError", st, <<Call("get", filename)>>)
    ELSE Outcome(enh_company_found(JsonLoads(st[filename])), st, <<Call("get", filename)>>)

enh_get_company_data(st, query_params, fail) ==
    IF ~Truthy(Get(query_params, "companyId", None))
    THEN Outcome(cors_response(400, [error |-> <<"companyId required">>]), st, <<>>)
    ELSE enh_fetch_company(st, enh_company_key(query_params.companyId), fail)

\* The key among `keys` (all parsing) whose id is least.
enh_least_key(keys) ==
    CHOOSE x \in keys : \A y \in keys :
        enh_parse_employee_id(x).v <= enh_parse_employee_id(y).v

\* The ids appended key by key, then employee_ids.sort(): one entry per
\* key that parses, in ascending order.
RECURSIVE enh_sorted_ids(_)
enh_sorted_ids(parsing) ==
    IF parsing = {} THEN <<>>
    ELSE Let(enh_least_key(parsing), LAMBDA k :
             <<enh_parse_employee_id(k).v>> \o enh_sorted_ids(parsing \ {k}))

enh_status_ids(keys) == enh_sorted_ids({k \in keys : enh_parse_employee_id(k).ok})

\* The employees left uncounted while the company has no record.
enh_status_body_uncounted(company_data, employee_ids) ==
    [companyCompleted |-> Get(company_data, "explicitlyCompleted", FALSE),
     companyInProgress |-> Get(company_data, "inProgress", FALSE),
     completionPercentage |-> Get(company_data, "completionPercentage", Num(0)),
     lastModified |-> Get(company_data, "lastModified", None),
     employeeCount |-> IF company_data = <<>> THEN 0 ELSE Len(employee_ids),
     employeeIds |-> employee_ids,
     nextEmployeeId |-> IF employee_ids # <<>>
                        THEN employee_ids[Len(employee_ids)] + 1
                        ELSE 0]

enh_status_body(company_data, employee_ids) ==
    [companyCompleted |-> Get(company_data, "explicitlyCompleted", FALSE),
     companyInProgress |-> Get(company_data, "inProgress", FALSE),
     completionPercentage |-> Get(company_data, "completionPercentage", Num(0)),
     lastModified |-> Get(company_data, "lastModified", None),
     employeeCount |-> Len(employee_ids),
     employeeIds |-> employee_ids,
     nextEmployeeId |-> IF employee_ids # <<>>
                        THEN employee_ids[Len(employee_ids)] + 1
                        ELSE 0]

\* The status query creating an empty company record where none is stored.
enh_status_of_creating(st, company_key, prefix, fail) ==
    Outcome(cors_response(200,
                enh_status_body(
                    IF Fails(fail, "get") \/ NoSuchKey(st, company_key) THEN <<>>
                    ELSE JsonLoads(st[company_key]),
                    IF Fails(fail, "list") THEN <<>>
                    ELSE enh_status_ids(ListKeys(st, prefix)))),
            IF NoSuchKey(st, company_key)
            THEN PutObject(st, company_key, JsonDumps([responses |-> <<>>]))
            ELSE st,
            <<Call("get", company_key), Call("list", prefix)>>)

\* `except ClientError: pass` covers NoSuchKey and every other ClientError of
\* the get; a failed listing leaves no employees.
enh_status_of(st, company_key, prefix, fail) ==
    IF ~Fails(fail, "get") /\ ~NoSuchKey(st, company_key) /\ ~IsJson(st[company_key])
    THEN enh_unhandled("JSONDecodeError", st, <<Call("get", company_key)>>)
    ELSE Outcome(cors_response(200,
             enh_status_body(
                 IF Fails(fail, "get") \/ NoSuchKey(st, company_key) THEN <<>>
                 ELSE JsonLoads(st[company_key]),
                 IF Fails(fail, "list") THEN <<>>
                 ELSE enh_status_ids(ListKeys(st, prefix)))),
             st, <<Call("get", company_key), Call("list", prefix)>>)

enh_get_company_status(st, query_params, fail) ==
    IF ~Truthy(Get(query_params, "companyId", None))
    THEN Outcome(cors_response(400, [error |-> <<"companyId required">>]), st, <<>>)
    ELSE enh_status_of(st, enh_company_key(query_params.companyId),
                       enh_employee_prefix(query_params.companyId), fail)

(***************************************************************************)
(* Enhanced revision: lambda_handler.  An event carries httpMethod, the    *)
(* query string parameters and the parsed JSON body.                       *)
(***************************************************************************)
\* The preflight left to the routing of a GET.
enh_preflight_routed(st, event, fail) ==
    enh_get_company_status(st, event.queryStringParameters, fail)

\* The CORS preflight: answered before any routing.
enh_preflight(st, event, fail) == Outcome(cors_response(200, <<>>), st, <<>>)

enh_lambda_handler(st, event, t, fail) ==
    IF event.httpMethod = "OPTIONS" THEN enh_preflight(st, event, fail)
    ELSE IF event.httpMethod = "POST" THEN enh_save_response(st, event.body, t, fail)
    ELSE IF event.httpMethod = "GET"
    THEN IF Get(event.queryStringParameters, "action", None) = StrV(<<"getEmployee">>)
         THEN enh_get_employee_data(st, event.queryStringParameters, fail)
         ELSE IF Get(event.queryStringParameters, "action", None) = StrV(<<"getCompany">>)
         THEN enh_get_company_data(st, event.queryStringParameters, fail)
         ELSE enh_get_company_status(st, event.queryStringParameters, fail)
    ELSE Outcome(cors_response(405, [error |-> <<"Method not allowed">>]), st, <<>>)

(***************************************************************************)
(* Enhanced revision: save_file_metadata, the upload metadata registry.    *)
(* No handler calls it.  upload_id stands for str(uuid.uuid4()).           *)
(***************************************************************************)
enh_metadata_entry(company_id, employee_id, question_id, file_metadata, upload_id, t) ==
    [uploadId |-> upload_id,
     companyId |-> company_id,
     employeeId |-> employee_id,
     questionId |-> question_id,
     fileName |-> file_metadata.fileName,
     fileSize |-> file_metadata.fileSize,
     fileType |-> file_metadata.fileType,
     s3Key |-> file_metadata.s3Key,
     s3Bucket |-> Get(file_metadata, "s3Bucket", "RESPONSES_BUCKET"),
     uploadTimestamp |-> t,
     questionText |-> Get(file_metadata, "questionText", "Unknown Question"),
     formType |-> IF Truthy(employee_id) THEN Employee ELSE Company]

enh_metadata_key(company_id, upload_id) ==
    <<"uploads", "/", "metadata", "/">> \o Str(company_id)
        \o <<"/", "upload-", upload_id, ".", "json">>

\* Returns the entry, or raises: the KeyError of a missing field before any
\* storage call, or the exception of the put.
save_file_metadata(st, company_id, employee_id, question_id, file_metadata, upload_id, t, fail) ==
    IF ~({"fileName", "fileSize", "fileType", "s3Key"} \subseteq DOMAIN file_metadata)
    THEN [raised |-> "KeyError", store |-> st, calls |-> <<>>]
    ELSE IF Fails(fail, "put")
    THEN [raised |-> "ClientError", store |-> st,
          calls |-> <<Call("put", enh_metadata_key(company_id, upload_id))>>]
    ELSE [raised |-> "none",
          store |-> PutObject(st, enh_metadata_key(company_id, upload_id),
                        JsonDumps(enh_metadata_entry(company_id, employee_id, question_id,
                                                     file_metadata, upload_id, t))),
          calls |-> <<Call("put", enh_metadata_key(company_id, upload_id))>>]

(***************************************************************************)
(* Index revision: responses, status and the fetches by path.              *)
(***************************************************************************)
idx_cors_headers ==
    [AccessControlAllowOrigin |-> "*",
     AccessControlAllowHeaders |->
         "Content-Type,Authorization,X-Amz-Date,X-Api-Key,X-Amz-Security-Token",
     AccessControlAllowMethods |-> "OPTIONS,POST,GET,PUT,DELETE,PATCH",
     AccessControlMaxAge |-> "86400"]

\* The CORS headers sent with successful responses only.
idx_response_plain(status_code, body) ==
    [statusCode |-> status_code,
     headers |-> IF status_code = 200 THEN idx_cors_headers ELSE <<>>,
     body |-> body]

idx_response(status_code, body) ==
    [statusCode |-> status_code, headers |-> idx_cors_headers, body |-> body]

\* The `except Exception as e` clause that ends every handler.
idx_error(msg, st, cs) == Outcome(idx_response(500, [error |-> <<msg>>]), st, cs)

\* Tokens in the order of their text (Python compares strings by code point).
TokenOrder ==
    <<" ", "+", "-", ".", "/", "0", "1", "2", "3", "4", "5", "6", "7", "8", "9",
      "False", "None", "True", "c1", "c2", "company", "company-responses",
      "employee-responses", "employee_", "json", "uploads", "x">>

TokenRank(c) == CHOOSE i \in 1..Len(TokenOrder) : TokenOrder[i] = c

RECURSIVE StrLe(_, _)
StrLe(a, b) ==
    IF a = <<>> THEN TRUE
    ELSE IF b = <<>> THEN FALSE
    ELSE IF Head(a) = Head(b) THEN StrLe(Tail(a), Tail(b))
    ELSE TokenRank(Head(a)) < TokenRank(Head(b))

\* The listed keys in listing (text) order.
RECURSIVE KeysInOrder(_)
KeysInOrder(keys) ==
    IF keys = {} THEN <<>>
    ELSE Let(CHOOSE x \in keys : \A y \in keys : StrLe(x, y), LAMBDA k :
             <<k>> \o KeysInOrder(keys \ {k}))

\* The key among `keys` whose id string sorts first.
idx_least_key(keys) ==
    CHOOSE x \in keys : \A y \in keys :
        StrLe(idx_employee_id_str(x), idx_employee_id_str(y))

\* One id string per listed key, then employee_ids.sort().
RECURSIVE idx_status_ids(_)
idx_status_ids(keys) ==
    IF keys = {} THEN <<>>
    ELSE Let(idx_least_key(keys), LAMBDA k :
             <<idx_employee_id_str(k)>> \o idx_status_ids(keys \ {k}))

idx_status_defaults ==
    [companyCompleted |-> FALSE,
     companyInProgress |-> FALSE,
     completionPercentage |-> Num(0),
     lastModified |-> None,
     employeeCount |-> 0,
     employeeIds |-> <<>>]

\* company_completion_percentage > 0 and not company_completed
idx_in_progress(company_completion_percentage, company_completed) ==
    FracLess(Num(0), company_completion_percentage) /\ ~company_completed

idx_status_body(found, company_data, employee_ids) ==
    [companyCompleted |-> Get(company_data, "completed", FALSE),
     companyInProgress |->
         found /\ idx_in_progress(Get(company_data, "completionPercentage", Num(0)),
                                  Get(company_data, "completed", FALSE)),
     completionPercentage |-> Get(company_data, "completionPercentage", Num(0)),
     lastModified |-> Get(company_data, "lastModified", None),
     employeeCount |-> Len(employee_ids),
     employeeIds |-> employee_ids]

\* Returns [status, calls]; never raises.  A get that fails otherwise than
\* with NoSuchKey, or an object that does not decode, reaches the outer
\* except clause; a failed listing leaves no employees.
idx_status_of(st, company_key, prefix, fail) ==
    IF Fails(fail, "get") \/ (~NoSuchKey(st, company_key) /\ ~IsJson(st[company_key]))
    THEN [status |-> idx_status_defaults, calls |-> <<Call("get", company_key)>>]
    ELSE [status |->
              idx_status_body(~NoSuchKey(st, company_key),
                  IF NoSuchKey(st, company_key) THEN <<>> ELSE JsonLoads(st[company_key]),
                  IF Fails(fail, "list") THEN <<>>
                  ELSE idx_status_ids(ListKeys(st, prefix))),
          calls |-> <<Call("get", company_key), Call("list", prefix)>>]

idx_get_company_status(st, company_id, fail) ==
    idx_status_of(st, idx_company_key(company_id), idx_employee_prefix(company_id), fail)

\* A label that takes every company not completed for one in progress.
idx_status_text_started(company_status) ==
    IF company_status.companyCompleted THEN "completed" ELSE "in-progress"

idx_status_text(company_status) ==
    IF company_status.companyCompleted THEN "completed"
    ELSE IF company_status.companyInProgress THEN "in-progress"
    ELSE "not-started"

handle_company_status_check(st, company_id, fail) ==
    IF ~Truthy(company_id)
    THEN Outcome(idx_response(400, [error |-> <<"Missing companyId parameter">>]), st, <<>>)
    ELSE Let(idx_get_company_status(st, company_id, fail), LAMBDA r :
             Outcome(idx_response(200, ("status" :> idx_status_text(r.status)) @@ r.status),
                     st, r.calls))

handle_get_request(st, query_params, fail) ==
    IF ~Truthy(Get(query_params, "companyId", None))
    THEN Outcome(idx_response(400, [error |-> <<"Missing companyId parameter">>]), st, <<>>)
    ELSE Let(idx_get_company_status(st, query_params.companyId, fail), LAMBDA r :
             Outcome(idx_response(200, r.status), st, r.calls))

idx_employee_entry(key, employee_data) ==
    [id |-> idx_employee_id_str(key),
     completed |-> Get(employee_data, "completed", FALSE),
     lastSaved |-> Get(employee_data, "lastModified", None)]

\* A key whose get or decode fails is skipped.
RECURSIVE idx_employee_entries(_, _, _)
idx_employee_entries(st, ks, fail) ==
    IF ks = <<>> THEN <<>>
    ELSE IF Fails(fail, "get") \/ ~IsJson(st[Head(ks)])
    THEN idx_employee_entries(st, Tail(ks), fail)
    ELSE <<idx_employee_entry(Head(ks), JsonLoads(st[Head(ks)]))>>
         \o idx_employee_entries(st, Tail(ks), fail)

idx_list_employees(st, prefix, ks, fail) ==
    Outcome(idx_response(200, [employees |-> idx_employee_entries(st, ks, fail)]),
            st,
            <<Call("list", prefix)>> \o [i \in 1..Len(ks) |-> Call("get", ks[i])])

handle_employee_list(st, company_id, fail) ==
    IF ~Truthy(company_id)
    THEN Outcome(idx_response(400, [error |-> <<"Missing companyId parameter">>]), st, <<>>)
    ELSE idx_list_employees(st, idx_employee_prefix(company_id),
             IF Fails(fail, "list") THEN <<>>
             ELSE KeysInOrder(ListKeys(st, idx_employee_prefix(company_id))),
             fail)

idx_employee_data_found(employee_data) ==
    idx_response(200,
        [found |-> TRUE,
         formData |-> Get(employee_data, "responses", <<>>),
         currentSection |-> Get(employee_data, "currentSection", 1),
         lastModified |-> Get(employee_data, "lastModified", None)])

idx_fetch_employee_data(st, response_key, fail) ==
    IF Fails(fail, "get") THEN idx_error("ClientError", st, <<Call("get", response_key)>>)
    ELSE IF NoSuchKey(st, response_key)
    THEN Outcome(idx_response(200, [found |-> FALSE, message |-> "Employee data not found"]),
                 st, <<Call("get", response_key)>>)
    ELSE IF ~IsJson(st[response_key])
    THEN idx_error("JSONDecodeError", st, <<Call("get", response_key)>>)
    ELSE Outcome(idx_employee_data_found(JsonLoads(st[response_key])),
                 st, <<Call("get", response_key)>>)

handle_get_employee_data(st, company_id, employee_id, fail) ==
    IF ~(Truthy(company_id) /\ Truthy(employee_id))
    THEN Outcome(idx_response(400, [error |-> <<"Missing companyId or employeeId">>]),
                 st, <<>>)
    ELSE idx_fetch_employee_data(st, idx_employee_key(company_id, employee_id), fail)

(***************************************************************************)
(* Index revision: the saves.                                              *)
(***************************************************************************)
\* response_data['completedAt'] is added when the record is completed.
idx_with_completed_at(data, completed, t) ==
    IF completed THEN data @@ ("completedAt" :> t) ELSE data

\* form_data.get('isCompleted', False)
idx_form_completed(body) ==
    Truthy(Get(Get(body, "formData", <<>>), "isCompleted", BoolV(FALSE)))

idx_company_section(body, t) ==
    idx_with_completed_at(
        [companyId |-> body.companyId,
         formType |-> Company,
         responses |-> Get(body, "formData", <<>>),
         currentSection |-> Get(body, "section", 1),
         lastModified |-> t,
         completed |-> idx_form_completed(body)],
        idx_form_completed(body), t)

idx_put_company_section(st, body, s3_key, t, fail) ==
    IF Fails(fail, "put") THEN idx_error("ClientError", st, <<Call("put", s3_key)>>)
    ELSE Outcome(idx_response(200,
             [success |-> TRUE,
              companyId |-> body.companyId,
              section |-> Get(body, "section", 1),
              completed |-> idx_form_completed(body),
              lastModified |-> t]),
             PutObject(st, s3_key, JsonDumps(idx_company_section(body, t))),
             <<Call("put", s3_key)>>)

handle_save_company(st, body, t, fail) ==
    IF ~Truthy(Get(body, "companyId", None))
    THEN Outcome(idx_response(400, [error |-> <<"Missing companyId">>]), st, <<>>)
    ELSE idx_put_company_section(st, body, idx_company_key(body.companyId), t, fail)

idx_employee_section(body, t) ==
    idx_with_completed_at(
        [companyId |-> body.companyId,
         employeeId |-> body.employeeId,
         formType |-> Employee,
         responses |-> Get(body, "formData", <<>>),
         currentSection |-> Get(body, "section", 1),
         lastModified |-> t,
         completed |-> idx_form_completed(body)],
        idx_form_completed(body), t)

idx_put_employee_section(st, body, s3_key, t, fail) ==
    IF Fails(fail, "put") THEN idx_error("ClientError", st, <<Call("put", s3_key)>>)
    ELSE Outcome(idx_response(200,
             [success |-> TRUE,
              companyId |-> body.companyId,
              employeeId |-> body.employeeId,
              section |-> Get(body, "section", 1),
              completed |-> idx_form_completed(body),
              lastModified |-> t]),
             PutObject(st, s3_key, JsonDumps(idx_employee_section(body, t))),
             <<Call("put", s3_key)>>)

handle_save_employee(st, body, t, fail) ==
    IF ~(Truthy(Get(body, "companyId", None)) /\ Truthy(Get(body, "employeeId", None)))
    THEN Outcome(idx_response(400, [error |-> <<"Missing companyId or employeeId">>]),
                 st, <<>>)
    ELSE idx_put_employee_section(st, body,
             idx_employee_key(body.companyId, body.employeeId), t, fail)

\* The completion decided without regard to preventAutoComplete.
idx_is_completed_unsuppressed(body, completion_percentage) ==
    \/ Truthy(Get(body, "completeAudit", BoolV(FALSE)))
    \/ Truthy(Get(body, "forceComplete", BoolV(FALSE)))
    \/ completion_percentage = Num(100)

\* complete_audit or force_complete or
\* (completion_percentage == 100 and not prevent_auto_complete)
idx_is_completed(body, completion_percentage) ==
    \/ Truthy(Get(body, "completeAudit", BoolV(FALSE)))
    \/ Truthy(Get(body, "forceComplete", BoolV(FALSE)))
    \/ /\ completion_percentage = Num(100)
       /\ ~Truthy(Get(body, "preventAutoComplete", BoolV(FALSE)))

\* form_type == 'employee' and is_new_employee and employee_id is None
idx_assigns(body) ==
    /\ body.formType = Employee
    /\ Truthy(Get(body, "isNewEmployee", BoolV(FALSE)))
    /\ Get(body, "employeeId", None) = None

idx_with_completed(data, completed, t) ==
    IF completed THEN idx_with_completed_at(data @@ ("completed" :> TRUE), completed, t)
    ELSE data

idx_response_data(body, employee_id, completion_percentage, t) ==
    idx_with_completed(
        [companyId |-> body.companyId,
         formType |-> body.formType,
         responses |-> Get(body, "responses", <<>>),
         lastModified |-> t,
         employeeId |-> IF body.formType = Employee THEN employee_id ELSE None,
         completionPercentage |-> completion_percentage],
        idx_is_completed(body, completion_percentage), t)

idx_form_result(body, employee_id, completion_percentage, t) ==
    IF body.formType = Employee
    THEN [success |-> TRUE,
          companyId |-> body.companyId,
          formType |-> body.formType,
          completionPercentage |-> completion_percentage,
          lastModified |-> t,
          employeeId |-> employee_id]
    ELSE [success |-> TRUE,
          companyId |-> body.companyId,
          formType |-> body.formType,
          completionPercentage |-> completion_percentage,
          lastModified |-> t]

idx_put_form(st, body, employee_id, s3_key, response_data, t, fail, listed) ==
    IF Fails(fail, "put") THEN idx_error("ClientError", st, Append(listed, Call("put", s3_key)))
    ELSE Outcome(idx_response(200,
             idx_form_result(body, employee_id, response_data.completionPercentage, t)),
             PutObject(st, s3_key, JsonDumps(response_data)),
             Append(listed, Call("put", s3_key)))

idx_save_form_as(st, body, employee_id, t, fail, listed) ==
    idx_put_form(st, body, employee_id,
        IF body.formType = Company THEN idx_company_key(body.companyId)
        ELSE idx_employee_key(body.companyId, employee_id),
        idx_response_data(body, employee_id,
            idx_completion_percentage(Get(body, "responses", <<>>)), t),
        t, fail, listed)

handle_form_response(st, body, t, fail) ==
    IF ~(Truthy(Get(body, "companyId", None)) /\ Truthy(Get(body, "formType", None)))
    THEN idx_error("Missing required fields: companyId, formType", st, <<>>)
    ELSE IF idx_assigns(body)
    THEN idx_save_form_as(st, body,
             IntV(idx_get_next_employee_id(st, body.companyId, Fails(fail, "list"), t)),
             t, fail, <<Call("list", idx_employee_prefix(body.companyId))>>)
    ELSE idx_save_form_as(st, body, Get(body, "employeeId", None), t, fail, <<>>)

(***************************************************************************)
(* Index revision: the fetches by action, and the file handlers.           *)
(***************************************************************************)
idx_company_found(company_data) ==
    idx_response(200,
        [found |-> TRUE,
         responses |-> Get(company_data, "responses", <<>>),
         lastModified |-> Get(company_data, "lastModified", None),
         completionPercentage |-> Get(company_data, "completionPercentage", Num(0)),
         completed |-> Get(company_data, "completed", FALSE)])

idx_fetch_company(st, response_key, fail) ==
    IF Fails(fail, "get") THEN idx_error("ClientError", st, <<Call("get", response_key)>>)
    ELSE IF NoSuchKey(st, response_key)
    THEN Outcome(idx_response(200,
             [found |-> FALSE, responses |-> <<>>,
              message |-> "No existing company responses found"]),
             st, <<Call("get", response_key)>>)
    ELSE IF ~IsJson(st[response_key])
    THEN idx_error("JSONDecodeError", st, <<Call("get", response_key)>>)
    ELSE Outcome(idx_company_found(JsonLoads(st[response_key])),
                 st, <<Call("get", response_key)>>)

handle_get_company_request(st, body, fail) ==
    IF ~Truthy(Get(body, "companyId", None)) THEN idx_error("Missing companyId", st, <<>>)
    ELSE idx_fetch_company(st, idx_company_key(body.companyId), fail)

idx_employee_found(employee_data) ==
    idx_response(200,
        [found |-> TRUE,
         responses |-> Get(employee_data, "responses", <<>>),
         employeeData |-> employee_data,
         lastModified |-> Get(employee_data, "lastModified", None)])

idx_fetch_employee(st, response_key, fail) ==
    IF Fails(fail, "get") THEN idx_error("ClientError", st, <<Call("get", response_key)>>)
    ELSE IF NoSuchKey(st, response_key)
    THEN Outcome(idx_response(200,
             [found |-> FALSE, responses |-> <<>>,
              message |-> "No existing employee responses found"]),
             st, <<Call("get", response_key)>>)
    ELSE IF ~IsJson(st[response_key])
    THEN idx_error("JSONDecodeError", st, <<Call("get", response_key)>>)
    ELSE Outcome(idx_employee_found(JsonLoads(st[response_key])),
                 st, <<Call("get", response_key)>>)

handle_get_employee_request(st, body, fail) ==
    IF ~(Truthy(Get(body, "companyId", None)) /\ Truthy(Get(body, "employeeId", None)))
    THEN idx_error("Missing companyId or employeeId", st, <<>>)
    ELSE idx_fetch_employee(st, idx_employee_key(body.companyId, body.employeeId), fail)

handle_presigned_url_request(st, body, fail) ==
    IF ~(/\ Truthy(Get(body, "fileName", None))
         /\ Truthy(Get(body, "contentType", None))
         /\ Truthy(Get(body, "s3Key", None)))
    THEN Outcome(idx_response(500,
             [error |-> <<"Failed to generate presigned URL: ",
                          "Missing required parameters: fileName, contentType, s3Key">>]),
             st, <<>>)
    ELSE IF Fails(fail, "presign")
    THEN Outcome(idx_response(500,
             [error |-> <<"Failed to generate presigned URL: ", "ClientError">>]),
             st, <<Call("presign", Str(body.s3Key))>>)
    ELSE Outcome(idx_response(200,
             [presignedUrl |-> <<"https://", Str(body.s3Key)>>,
              s3Key |-> body.s3Key,
              expires |-> Get(body, "expires", 300)]),
             st, <<Call("presign", Str(body.s3Key))>>)

\* The uploaded object: the bytes and the metadata put with them.
idx_file_object(body, t) ==
    [bytes |-> body.fileData,
     metadata |-> [originalFilename |-> body.fileName,
                   uploadTimestamp |-> t,
                   uploadMethod |-> "lambda-fallback"]]

\* An upload that also registers the file in the metadata registry.
handle_file_upload_request_registering(st, body, t, fail) ==
    IF ~(/\ Truthy(Get(body, "fileData", None))
         /\ Truthy(Get(body, "fileName", None))
         /\ Truthy(Get(body, "s3Key", None)))
    THEN Outcome(idx_response(500,
             [error |-> <<"File upload failed: ",
                          "Missing required parameters: fileData, fileName, s3Key">>]),
             st, <<>>)
    ELSE IF Fails(fail, "put")
    THEN Outcome(idx_response(500, [error |-> <<"File upload failed: ", "ClientError">>]),
                 st, <<Call("put", Str(body.s3Key))>>)
    ELSE Outcome(idx_response(200,
             [success |-> TRUE,
              s3Key |-> body.s3Key,
              uploadMethod |-> "lambda",
              fileName |-> body.fileName,
              uploadedAt |-> t]),
             save_file_metadata(
                 PutObject(st, Str(body.s3Key), idx_file_object(body, t)),
                 StrV(<<"c1">>), None, "q1",
                 [fileName |-> body.fileName, fileSize |-> 1,
                  fileType |-> Get(body, "contentType", None), s3Key |-> body.s3Key],
                 "u1", t, fail).store,
             <<Call("put", Str(body.s3Key))>>)

handle_file_upload_request(st, body, t, fail) ==
    IF ~(/\ Truthy(Get(body, "fileData", None))
         /\ Truthy(Get(body, "fileName", None))
         /\ Truthy(Get(body, "s3Key", None)))
    THEN Outcome(idx_response(500,
             [error |-> <<"File upload failed: ",
                          "Missing required parameters: fileData, fileName, s3Key">>]),
             st, <<>>)
    ELSE IF Fails(fail, "put")
    THEN Outcome(idx_response(500, [error |-> <<"File upload failed: ", "ClientError">>]),
                 st, <<Call("put", Str(body.s3Key))>>)
    ELSE Outcome(idx_response(200,
             [success |-> TRUE,
              s3Key |-> body.s3Key,
              uploadMethod |-> "lambda",
              fileName |-> body.fileName,
              uploadedAt |-> t]),
             PutObject(st, Str(body.s3Key), idx_file_object(body, t)),
             <<Call("put", Str(body.s3Key))>>)

(***************************************************************************)
(* Index revision: lambda_handler.  An event carries httpMethod, resource  *)
(* (a sequence of path pieces), pathParameters, queryStringParameters and  *)
(* the parsed JSON body.                                                   *)
(***************************************************************************)
\* `'/responses/<piece>' in resource_path`
InPath(piece, resource_path) == \E j \in 1..Len(resource_path) : resource_path[j] = piece

\* A router that looks at the body's action before the resource path.
idx_route_post_action_first(st, event, t, fail) ==
    IF Get(event.body, "action", None) = StrV(<<"getPresignedUrl">>)
    THEN handle_presigned_url_request(st, event.body, fail)
    ELSE IF Get(event.body, "action", None) = StrV(<<"uploadFile">>)
    THEN handle_file_upload_request(st, event.body, t, fail)
    ELSE IF Get(event.body, "action", None) = StrV(<<"getCompany">>)
    THEN handle_get_company_request(st, event.body, fail)
    ELSE IF Get(event.body, "action", None) = StrV(<<"getEmployee">>)
    THEN handle_get_employee_request(st, event.body, fail)
    ELSE IF InPath("/responses/save-company", event.resource)
    THEN handle_save_company(st, event.body, t, fail)
    ELSE IF InPath("/responses/save-employee", event.resource)
    THEN handle_save_employee(st, event.body, t, fail)
    ELSE handle_form_response(st, event.body, t, fail)

idx_route_get(st, event, fail) ==
    IF InPath("/responses/company-status/", event.resource)
    THEN handle_company_status_check(st, Get(event.pathParameters, "companyId", None), fail)
    ELSE IF InPath("/responses/employee-list/", event.resource)
    THEN handle_employee_list(st, Get(event.pathParameters, "companyId", None), fail)
    ELSE IF InPath("/responses/employee-data/", event.resource)
    THEN handle_get_employee_data(st, Get(event.pathParameters, "companyId", None),
                                  Get(event.pathParameters, "employeeId", None), fail)
    ELSE handle_get_request(st, event.queryStringParameters, fail)

idx_route_post(st, event, t, fail) ==
    IF InPath("/responses/save-company", event.resource)
    THEN handle_save_company(st, event.body, t, fail)
    ELSE IF InPath("/responses/save-employee", event.resource)
    THEN handle_save_employee(st, event.body, t, fail)
    ELSE IF Get(event.body, "action", None) = StrV(<<"getPresignedUrl">>)
    THEN handle_presigned_url_request(st, event.body, fail)
    ELSE IF Get(event.body, "action", None) = StrV(<<"uploadFile">>)
    THEN handle_file_upload_request(st, event.body, t, fail)
    ELSE IF Get(event.body, "action", None) = StrV(<<"getCompany">>)
    THEN handle_get_company_request(st, event.body, fail)
    ELSE IF Get(event.body, "action", None) = StrV(<<"getEmployee">>)
    THEN handle_get_employee_request(st, event.body, fail)
    ELSE handle_form_response(st, event.body, t, fail)

\* The CORS preflight: answered before any routing.
idx_preflight(st, event, fail) ==
    Outcome(idx_response(200, [message |-> "CORS preflight successful"]), st, <<>>)

idx_lambda_handler(st, event, t, fail) ==
    IF event.httpMethod = "OPTIONS" THEN idx_preflight(st, event, fail)
    ELSE IF event.httpMethod = "GET" THEN idx_route_get(st, event, fail)
    ELSE IF event.httpMethod = "POST" THEN idx_route_post(st, event, t, fail)
    ELSE Outcome(idx_response(404,
             [error |-> <<"Route not found">>, method |-> event.httpMethod,
              path |-> event.resource]), st, <<>>)

(***************************************************************************)
(* Requests the model draws from.                                          *)
(***************************************************************************)
Absent == [t |-> "absent"]

\* A dict entry, left out when the value is Absent.
Opt(k, v) == IF v = Absent THEN <<>> ELSE (k :> v)

CoA == StrV(<<"c1">>)
CoB == StrV(<<"c2">>)
\* A company id that has the id of company c1 and a "/" at its start.
CoNested == StrV(<<"c1", "/", "x">>)
\* A formType that is neither 'company' nor 'employee'.
OtherForm == StrV(<<"other">>)
EmptyId == StrV(<<>>)

RNone == <<>>
RHalf == [q1 |-> StrV(<<"a">>), q2 |-> StrV(<<>>)]
RFull == [q1 |-> StrV(<<"a">>), q2 |-> StrV(<<"b">>)]
RThird == [q1 |-> StrV(<<"a">>), q2 |-> StrV(<<" ">>), q3 |-> StrV(<<>>)]
RTyped == [q1 |-> IntV(7), q2 |-> IntV(0), q3 |-> BoolV(TRUE)]

FileMeta(q) == [questionId |-> q, fileName |-> "report.pdf"]

IsNew == BoolV(TRUE)

SaveBody(cid, ftype, r, eid, new, fm) ==
    Opt("companyId", cid) @@ Opt("formType", ftype) @@ Opt("responses", r)
        @@ Opt("employeeId", eid) @@ Opt("isNewEmployee", new) @@ Opt("fileMetadata", fm)

\* <<body, fault>> pairs of the company form submissions.
CompanySaves ==
    {<<SaveBody(c, Company, r, Absent, Absent, Absent), "none">> :
        c \in {CoA, CoB, EmptyId}, r \in {RHalf, RFull}}
    \cup {<<SaveBody(CoA, Company, r, Absent, Absent, Absent), "none">> :
             r \in {RNone, RThird, RTyped}}
    \cup {<<SaveBody(CoA, Company, RHalf, Absent, Absent, FileMeta(q)), "none">> :
             q \in {"q1", "q2"}}
    \cup {<<SaveBody(CoA, Company, RHalf, Absent, Absent, Absent), f>> : f \in {"get", "put"}}

\* <<employeeId, isNewEmployee>> of an employee submission.
EmployeeSelectors ==
    {<<Absent, IsNew>>, <<IntV(0), Absent>>, <<IntV(1), Absent>>, <<StrV(<<"x">>), Absent>>}

EmployeeSaves ==
    {<<SaveBody(c, Employee, RHalf, e[1], e[2], Absent), "none">> :
        c \in {CoA, CoB}, e \in EmployeeSelectors}
    \cup {<<SaveBody(CoA, Employee, RFull, e[1], e[2], Absent), "none">> :
             e \in {<<Absent, IsNew>>, <<IntV(0), Absent>>}}
    \cup {<<SaveBody(EmptyId, Employee, RHalf, Absent, IsNew, Absent), "none">>,
          <<SaveBody(CoA, Employee, RHalf, Absent, Absent, Absent), "none">>,
          <<SaveBody(CoA, Employee, RHalf, IntV(-2), Absent, Absent), "none">>,
          <<SaveBody(CoA, OtherForm, RHalf, IntV(1), Absent, Absent), "none">>}
    \cup {<<SaveBody(CoA, Employee, RHalf, IntV(0), Absent, FileMeta(q)), "none">> :
             q \in {"q1", "q2"}}
    \cup {<<SaveBody(CoA, Employee, RHalf, Absent, IsNew, Absent), f>> :
             f \in {"list", "get", "put"}}

\* Submissions that lack a required field.
InvalidSaves ==
    {<<SaveBody(Absent, Company, RHalf, Absent, Absent, Absent), "none">>,
     <<SaveBody(CoA, Absent, RHalf, Absent, Absent, Absent), "none">>,
     <<("action" :> StrV(<<"getCompany">>)) @@ ("companyId" :> CoA), "none">>}

Query(action, cid, eid) ==
    Opt("action", action) @@ Opt("companyId", cid) @@ Opt("employeeId", eid)

GetEmployeeAction == StrV(<<"getEmployee">>)
GetCompanyAction == StrV(<<"getCompany">>)

EmployeeQueries ==
    {<<Query(GetEmployeeAction, c, StrV(<<e>>)), "none">> :
        c \in {CoA, CoB}, e \in {"0", "1", "x"}}
    \cup {<<Query(GetEmployeeAction, EmptyId, StrV(<<"0">>)), "none">>,
          <<Query(GetEmployeeAction, Absent, StrV(<<"0">>)), "none">>,
          <<Query(GetEmployeeAction, CoA, Absent), "none">>,
          <<Query(GetEmployeeAction, CoA, StrV(<<"0">>)), "get">>}

CompanyQueries ==
    {<<Query(GetCompanyAction, c, Absent), "none">> : c \in {CoA, CoB, EmptyId, Absent}}
    \cup {<<Query(GetCompanyAction, CoA, Absent), "get">>}

StatusQueries ==
    {<<Query(Absent, c, Absent), "none">> : c \in {CoA, CoB, EmptyId, Absent}}
    \cup {<<Query(Absent, CoA, Absent), f>> : f \in {"get", "list"}}

enh_Event(method, query, body) ==
    [httpMethod |-> method, queryStringParameters |-> query, body |-> body]

(***************************************************************************)
(* The state machine.  One revision is deployed (rev); each step is one    *)
(* whole invocation of lambda_handler, which reads the clock once the      *)
(* invocation has started (t = now + 1).                                   *)
(***************************************************************************)
NoEvent == [httpMethod |-> "NONE"]

Init ==
    /\ rev \in {"enh", "idx"}
    /\ store = <<>>
    /\ now = 0
    /\ nops = 0
    /\ req = [event |-> NoEvent, fail |-> "none", t |-> 0]
    /\ resp = [statusCode |-> 0, headers |-> <<>>, body |-> <<>>]
    /\ calls = <<>>
    /\ procs = <<>>

\* The effect of one invocation of the enhanced revision's lambda_handler.
enh_Invoke(event, fail) ==
    Let(enh_lambda_handler(store, event, now + 1, fail), LAMBDA out :
        /\ store' = out.store
        /\ resp' = out.resp
        /\ calls' = out.calls
        /\ req' = [event |-> event, fail |-> fail, t |-> now + 1]
        /\ now' = now + 1
        /\ nops' = nops + 1
        /\ UNCHANGED <<rev, procs>>)

enh_Ready == rev = "enh" /\ nops < MaxOps

enh_Options ==
    /\ enh_Ready
    /\ \E q \in {<<>>, Query(GetCompanyAction, CoA, Absent)},
          b \in {<<>>, SaveBody(CoA, Company, RHalf, Absent, Absent, Absent)} :
           enh_Invoke(enh_Event("OPTIONS", q, b), "none")

enh_PostCompany ==
    /\ enh_Ready
    /\ \E x \in CompanySaves : enh_Invoke(enh_Event("POST", <<>>, x[1]), x[2])

enh_PostEmployee ==
    /\ enh_Ready
    /\ \E x \in EmployeeSaves : enh_Invoke(enh_Event("POST", <<>>, x[1]), x[2])

enh_PostInvalid ==
    /\ enh_Ready
    /\ \E x \in InvalidSaves : enh_Invoke(enh_Event("POST", <<>>, x[1]), x[2])

enh_GetEmployee ==
    /\ enh_Ready
    /\ \E x \in EmployeeQueries : enh_Invoke(enh_Event("GET", x[1], <<>>), x[2])

enh_GetCompany ==
    /\ enh_Ready
    /\ \E x \in CompanyQueries : enh_Invoke(enh_Event("GET", x[1], <<>>), x[2])

enh_GetStatus ==
    /\ enh_Ready
    /\ \E x \in StatusQueries : enh_Invoke(enh_Event("GET", x[1], <<>>), x[2])

enh_OtherMethod ==
    /\ enh_Ready
    /\ \E m \in {"PUT", "DELETE"} :
           enh_Invoke(enh_Event(m, Query(Absent, CoA, Absent),
                                SaveBody(CoA, Company, RHalf, Absent, Absent, Absent)), "none")

(***************************************************************************)
(* Requests of the index revision.                                         *)
(***************************************************************************)
idx_Event(method, resource, path, query, body) ==
    [httpMethod |-> method, resource |-> resource, pathParameters |-> path,
     queryStringParameters |-> query, body |-> body]

Responses == <<"/responses">>
CompanyStatusPath == <<"/responses/company-status/", "{companyId}">>
EmployeeListPath == <<"/responses/employee-list/", "{companyId}">>
EmployeeDataPath == <<"/responses/employee-data/", "{companyId}", "/", "{employeeId}">>
SaveCompanyPath == <<"/responses/save-company">>
SaveEmployeePath == <<"/responses/save-employee">>

PathParams(cid, eid) == Opt("companyId", cid) @@ Opt("employeeId", eid)

\* <<path parameters, fault>> of the status checks and employee lists.
CompanyPaths ==
    {<<PathParams(c, Absent), "none">> : c \in {CoA, CoB, Absent}}
    \cup {<<PathParams(CoA, Absent), f>> : f \in {"get", "list"}}

EmployeePaths ==
    {<<PathParams(c, StrV(<<e>>)), "none">> : c \in {CoA, CoB}, e \in {"0", "1", "x"}}
    \cup {<<PathParams(CoA, Absent), "none">>, <<PathParams(CoA, StrV(<<"1">>)), "get">>}

FormData(r, done) == r @@ Opt("isCompleted", done)

SectionBody(cid, eid, form) ==
    Opt("companyId", cid) @@ Opt("employeeId", eid) @@ ("formData" :> form)

SectionCompanySaves ==
    {<<SectionBody(c, Absent, FormData(r, Absent)), "none">> :
        c \in {CoA, CoB}, r \in {RHalf, RFull}}
    \cup {<<SectionBody(CoA, Absent, FormData(RFull, BoolV(TRUE))), "none">>,
          <<SectionBody(EmptyId, Absent, FormData(RHalf, Absent)), "none">>,
          <<SectionBody(CoA, Absent, FormData(RHalf, Absent)), "put">>,
          <<("action" :> StrV(<<"getCompany">>))
                @@ SectionBody(CoA, Absent, FormData(RFull, Absent)), "none">>}

SectionEmployeeSaves ==
    {<<SectionBody(CoA, e, FormData(r, Absent)), "none">> :
        e \in {IntV(0), IntV(1), StrV(<<"x">>)}, r \in {RHalf, RFull}}
    \cup {<<SectionBody(CoB, IntV(1), FormData(RHalf, Absent)), "none">>,
          <<SectionBody(CoA, IntV(1), FormData(RFull, BoolV(TRUE))), "none">>,
          <<SectionBody(CoA, Absent, FormData(RHalf, Absent)), "none">>,
          <<SectionBody(CoA, IntV(1), FormData(RHalf, Absent)), "put">>}
    \cup {<<SectionBody(CoA, e, FormData(RHalf, Absent)), "none">> : e \in {IntV(2), IntV(10)}}

ActionBody(action, cid, eid) ==
    ("action" :> StrV(<<action>>)) @@ Opt("companyId", cid) @@ Opt("employeeId", eid)

CompanyRequests ==
    {<<ActionBody("getCompany", c, Absent), "none">> : c \in {CoA, CoB, EmptyId, Absent}}
    \cup {<<ActionBody("getCompany", CoA, Absent), "get">>}

EmployeeRequests ==
    {<<ActionBody("getEmployee", c, e), "none">> :
        c \in {CoA, CoB}, e \in {IntV(0), IntV(1), StrV(<<"x">>)}}
    \cup {<<ActionBody("getEmployee", CoA, Absent), "none">>,
          <<ActionBody("getEmployee", CoA, IntV(1)), "get">>}

UploadKey == StrV(<<"uploads", "/", "c1", "/", "report", ".", "pdf">>)

FileBody(action, name, ctype, key, data) ==
    ("action" :> StrV(<<action>>)) @@ Opt("fileName", name) @@ Opt("contentType", ctype)
        @@ Opt("s3Key", key) @@ Opt("fileData", data)

Pdf == StrV(<<"report", ".", "pdf">>)
PdfType == StrV(<<"application/pdf">>)
PdfData == StrV(<<"JVBERi0=">>)

PresignRequests ==
    {<<FileBody("getPresignedUrl", Pdf, PdfType, UploadKey, Absent), f>> :
        f \in {"none", "presign"}}
    \cup {<<FileBody("getPresignedUrl", Pdf, PdfType, Absent, Absent), "none">>}

\* An upload whose caller-supplied s3Key is the key of a company record.
RecordKey == StrV(idx_company_key(CoA))

UploadRequests ==
    {<<FileBody("uploadFile", Pdf, PdfType, UploadKey, PdfData), f>> : f \in {"none", "put"}}
    \cup {<<FileBody("uploadFile", Pdf, PdfType, UploadKey, Absent), "none">>,
          <<FileBody("uploadFile", Pdf, PdfType, RecordKey, PdfData), "none">>}

\* completeAudit, forceComplete, preventAutoComplete
Flags(audit, force, prevent) ==
    Opt("completeAudit", audit) @@ Opt("forceComplete", force)
        @@ Opt("preventAutoComplete", prevent)

NoFlags == Flags(Absent, Absent, Absent)

FlagSets ==
    {NoFlags, Flags(BoolV(TRUE), Absent, Absent), Flags(Absent, BoolV(TRUE), Absent),
     Flags(Absent, Absent, BoolV(TRUE))}

FormCompanySaves ==
    {<<SaveBody(CoA, Company, r, Absent, Absent, Absent) @@ fl, "none">> :
        r \in {RHalf, RFull}, fl \in FlagSets}
    \cup {<<SaveBody(c, Company, RHalf, Absent, Absent, Absent), "none">> : c \in {CoB}}
    \cup {<<SaveBody(CoA, Company, r, Absent, Absent, Absent), "none">> :
             r \in {RNone, RThird, RTyped}}
    \cup {<<SaveBody(CoA, Company, RHalf, Absent, Absent, Absent), "put">>}

FormEmployeeSaves ==
    {<<SaveBody(c, Employee, RHalf, e[1], e[2], Absent), "none">> :
        c \in {CoA, CoB}, e \in EmployeeSelectors}
    \cup {<<SaveBody(CoA, Employee, RFull, e[1], e[2], Absent), "none">> :
             e \in {<<Absent, IsNew>>, <<IntV(1), Absent>>}}
    \cup {<<SaveBody(CoA, Employee, RHalf, Absent, Absent, Absent), "none">>}
    \cup {<<SaveBody(CoA, Employee, RHalf, Absent, IsNew, Absent), f>> : f \in {"list", "put"}}
    \cup {<<SaveBody(CoNested, Employee, RHalf, IntV(1), Absent, Absent), "none">>,
          <<SaveBody(CoA, OtherForm, RHalf, IntV(1), Absent, Absent), "none">>}

FormInvalidSaves ==
    {<<SaveBody(c, Company, RHalf, Absent, Absent, Absent), "none">> : c \in {Absent, EmptyId}}
    \cup {<<SaveBody(CoA, Absent, RHalf, Absent, Absent, Absent), "none">>}

\* The effect of one invocation of the index revision's lambda_handler.
idx_Invoke(event, fail) ==
    Let(idx_lambda_handler(store, event, now + 1, fail), LAMBDA out :
        /\ store' = out.store
        /\ resp' = out.resp
        /\ calls' = out.calls
        /\ req' = [event |-> event, fail |-> fail, t |-> now + 1]
        /\ now' = now + 1
        /\ nops' = nops + 1
        /\ UNCHANGED <<rev, procs>>)

idx_Ready == rev = "idx" /\ nops < MaxOps

idx_Get(resource, path, query, fail) ==
    idx_Invoke(idx_Event("GET", resource, path, query, <<>>), fail)

idx_Post(resource, body, fail) ==
    idx_Invoke(idx_Event("POST", resource, <<>>, <<>>, body), fail)

idx_Options ==
    /\ idx_Ready
    /\ \E r \in {Responses, SaveCompanyPath},
          b \in {<<>>, SaveBody(CoA, Company, RHalf, Absent, Absent, Absent)} :
           idx_Invoke(idx_Event("OPTIONS", r, <<>>, <<>>, b), "none")

idx_GetCompanyStatus ==
    /\ idx_Ready
    /\ \E x \in CompanyPaths : idx_Get(CompanyStatusPath, x[1], <<>>, x[2])

idx_GetEmployeeList ==
    /\ idx_Ready
    /\ \E x \in CompanyPaths : idx_Get(EmployeeListPath, x[1], <<>>, x[2])

idx_GetEmployeeData ==
    /\ idx_Ready
    /\ \E x \in EmployeePaths : idx_Get(EmployeeDataPath, x[1], <<>>, x[2])

idx_GetStatus ==
    /\ idx_Ready
    /\ \E x \in StatusQueries \cup {<<Query(GetCompanyAction, CoA, Absent), "none">>} :
           idx_Get(Responses, <<>>, x[1], x[2])

idx_PostSaveCompany ==
    /\ idx_Ready
    /\ \E x \in SectionCompanySaves : idx_Post(SaveCompanyPath, x[1], x[2])

idx_PostSaveEmployee ==
    /\ idx_Ready
    /\ \E x \in SectionEmployeeSaves : idx_Post(SaveEmployeePath, x[1], x[2])

idx_PostPresign ==
    /\ idx_Ready
    /\ \E x \in PresignRequests : idx_Post(Responses, x[1], x[2])

idx_PostUpload ==
    /\ idx_Ready
    /\ \E x \in UploadRequests : idx_Post(Responses, x[1], x[2])

idx_PostGetCompany ==
    /\ idx_Ready
    /\ \E x \in CompanyRequests : idx_Post(Responses, x[1], x[2])

idx_PostGetEmployee ==
    /\ idx_Ready
    /\ \E x \in EmployeeRequests : idx_Post(Responses, x[1], x[2])

idx_PostFormCompany ==
    /\ idx_Ready
    /\ \E x \in FormCompanySaves : idx_Post(Responses, x[1], x[2])

idx_PostFormEmployee ==
    /\ idx_Ready
    /\ \E x \in FormEmployeeSaves : idx_Post(Responses, x[1], x[2])

idx_PostInvalid ==
    /\ idx_Ready
    /\ \E x \in FormInvalidSaves : idx_Post(Responses, x[1], x[2])

idx_OtherMethod ==
    /\ idx_Ready
    /\ \E m \in {"PUT", "DELETE"} :
           idx_Invoke(idx_Event(m, Responses, <<>>, <<>>,
                                ActionBody("getCompany", CoA, Absent)), "none")

Next ==
    \/ enh_Options
    \/ enh_PostCompany
    \/ enh_PostEmployee
    \/ enh_PostInvalid
    \/ enh_GetEmployee
    \/ enh_GetCompany
    \/ enh_GetStatus
    \/ enh_OtherMethod
    \/ idx_Options
    \/ idx_GetCompanyStatus
    \/ idx_GetEmployeeList
    \/ idx_GetEmployeeData
    \/ idx_GetStatus
    \/ idx_PostSaveCompany
    \/ idx_PostSaveEmployee
    \/ idx_PostPresign
    \/ idx_PostUpload
    \/ idx_PostGetCompany
    \/ idx_PostGetEmployee
    \/ idx_PostFormCompany
    \/ idx_PostFormEmployee
    \/ idx_PostInvalid
    \/ idx_OtherMethod

Spec == Init /\ [][Next]_vars

(***************************************************************************)
(* Overlapping saves.  Two invocations of the deployed revision's form     *)
(* submission run at once; each storage call (list, get, put) is one step  *)
(* and the bucket is all they share.  A process keeps the locals of its    *)
(* invocation: the timestamp, the listing and the id taken from it, the    *)
(* record it read, the record it wrote and its response.                   *)
(***************************************************************************)
Procs == {1, 2}

Pending == [statusCode |-> 0, headers |-> <<>>, body |-> <<>>]

Invocation(body) ==
    [pc |-> "start", body |-> body, t |-> 0, id |-> None, listed |-> <<>>,
     existing |-> None, gotAt |-> 0, wrote |-> <<>>, putAt |-> 0, resp |-> Pending]

\* The submissions that overlap.
RaceBodies ==
    {SaveBody(c, Employee, RHalf, Absent, IsNew, Absent) : c \in {CoA, CoB}}
    \cup {SaveBody(CoA, Employee, RFull, Absent, IsNew, Absent),
          SaveBody(CoA, Employee, RFull, IntV(1), Absent, Absent)}
    \cup {SaveBody(CoA, Company, r, Absent, Absent, Absent) : r \in {RHalf, RFull}}

\* The bucket an earlier, finished submission (at time 0) has left.
SavedBefore(body) ==
    IF rev = "enh" THEN enh_save_response(<<>>, body, 0, "none").store
    ELSE handle_form_response(<<>>, body, 0, "none").store

RaceStores ==
    {<<>>,
     SavedBefore(SaveBody(CoA, Employee, RHalf, IntV(1), Absent, Absent)),
     SavedBefore(SaveBody(CoA, Company, RHalf, Absent, Absent, Absent))}

RaceInit ==
    /\ rev \in {"enh", "idx"}
    /\ store \in RaceStores
    /\ now = 0
    /\ nops = 0
    /\ req = [event |-> NoEvent, fail |-> "none", t |-> 0]
    /\ resp = Pending
    /\ calls = <<>>
    /\ procs \in [Procs -> {Invocation(b) : b \in RaceBodies}]

\* Whether the submission asks get_next_employee_id for an id.
save_assigns(body) ==
    IF rev = "enh" THEN body.formType # Company /\ enh_assigns(body) ELSE idx_assigns(body)

\* The prefix the id assignment lists.
save_prefix(body) ==
    IF rev = "enh" THEN enh_employee_prefix(body.companyId)
    ELSE idx_employee_prefix(body.companyId)

\* filename / s3_key of the record.
save_key(body, id) ==
    IF rev = "enh"
    THEN IF body.formType = Company THEN enh_company_key(body.companyId)
         ELSE enh_employee_key(body.companyId, id)
    ELSE IF body.formType = Company THEN idx_company_key(body.companyId)
         ELSE idx_employee_key(body.companyId, id)

\* The id get_next_employee_id takes from the listing of bucket st.
save_next_id(st, body, t) ==
    IF rev = "enh" THEN IntV(enh_get_next_employee_id(st, body.companyId, FALSE))
    ELSE IntV(idx_get_next_employee_id(st, body.companyId, FALSE, t))

\* The record re-read when the put is made.
enh_existing_data_reread(st, existing_data, filename) ==
    IF NoSuchKey(st, filename) THEN None ELSE JsonLoads(st[filename])

\* existing_data as the record is built: what the get returned, however the
\* bucket has changed since.
enh_existing_data(st, existing_data, filename) == existing_data

\* The record a process in state p builds from what it has read.
save_record(st, p, t) ==
    IF rev = "enh"
    THEN IF p.body.formType = Company
         THEN enh_company_data(p.body,
                  enh_existing_data(st, p.existing, save_key(p.body, p.id)),
                  p.t, enh_completion_percentage(p.body.responses))
         ELSE enh_employee_data(p.body, p.id,
                  enh_existing_data(st, p.existing, save_key(p.body, p.id)),
                  p.t)
    ELSE idx_response_data(p.body, p.id,
             idx_completion_percentage(Get(p.body, "responses", <<>>)), t)

\* The put of that record, with the response returned.
save_outcome(st, p, t) ==
    IF rev = "enh"
    THEN IF p.body.formType = Company
         THEN enh_put_company(st, save_key(p.body, p.id), save_record(st, p, t), "none")
         ELSE enh_put_employee(st, save_key(p.body, p.id), save_record(st, p, t),
                  "none", <<>>)
    ELSE idx_put_form(st, p.body, p.id, save_key(p.body, p.id), save_record(st, p, t),
             t, "none", <<>>)

RaceStep == nops' = nops + 1 /\ UNCHANGED <<rev, req, resp, calls>>

\* The body is read; save_response takes its timestamp here.
Save_begin(p) ==
    /\ procs[p].pc = "start"
    /\ procs' = [procs EXCEPT ![p] =
           [procs[p] EXCEPT !.pc = IF save_assigns(procs[p].body) THEN "list"
                            ELSE IF rev = "enh" THEN "get" ELSE "put",
                     !.t = IF rev = "enh" THEN now + 1 ELSE 0,
                     !.id = Get(procs[p].body, "employeeId", None)]]
    /\ now' = IF rev = "enh" THEN now + 1 ELSE now
    /\ UNCHANGED store
    /\ RaceStep

\* get_next_employee_id: the listing and the id taken from it.
Save_list(p) ==
    /\ procs[p].pc = "list"
    /\ procs' = [procs EXCEPT ![p] =
           [procs[p] EXCEPT !.pc = IF rev = "enh" THEN "get" ELSE "put",
                     !.listed = <<ListKeys(store, save_prefix(procs[p].body))>>,
                     !.id = save_next_id(store, procs[p].body, now)]]
    /\ UNCHANGED <<store, now>>
    /\ RaceStep

\* The get of the existing record (enhanced revision).
Save_get(p) ==
    /\ procs[p].pc = "get"
    /\ procs' = [procs EXCEPT ![p] =
           [procs[p] EXCEPT !.pc = "put",
                     !.existing = IF NoSuchKey(store, save_key(procs[p].body, procs[p].id)) THEN None
                                  ELSE JsonLoads(store[save_key(procs[p].body, procs[p].id)]),
                     !.gotAt = nops + 1]]
    /\ UNCHANGED <<store, now>>
    /\ RaceStep

\* The record is built and put, and the response returned; the index
\* revision reads the clock as it builds the record.
Save_put(p) ==
    /\ procs[p].pc = "put"
    /\ Let(save_outcome(store, procs[p], now + 1), LAMBDA out :
           /\ store' = out.store
           /\ procs' = [procs EXCEPT ![p] =
                  [procs[p] EXCEPT !.pc = "done",
                            !.wrote = save_record(store, procs[p], now + 1),
                            !.putAt = nops + 1,
                            !.resp = out.resp]])
    /\ now' = IF rev = "idx" THEN now + 1 ELSE now
    /\ RaceStep

RaceNext ==
    \E p \in Procs :
        \/ Save_begin(p)
        \/ Save_list(p)
        \/ Save_get(p)
        \/ Save_put(p)

RaceSpec == RaceInit /\ [][RaceNext]_vars

(***************************************************************************)
(* Properties.                                                             *)
(***************************************************************************)
Companies == {CoA, CoB}

\* The text between a prefix and the closing ".json" of a key.
Suffix(k, prefix) == SubSeq(k, Len(prefix) + 1, Len(k) - 2)

\* The integer ids among the keys stored under a prefix.
StoredIntegerIds(st, prefix) ==
    {ParseInt(Suffix(k, prefix)).v :
        k \in {x \in ListKeys(st, prefix) : ParseInt(Suffix(x, prefix)).ok}}

OneMoreThanLargest(ids) ==
    IF ids = {} THEN 0 ELSE (CHOOSE x \in ids : \A y \in ids : y <= x) + 1

\* C1: for the employee keys stored under a company, get_next_employee_id
\* (of either revision, its listing succeeding) returns one more than the
\* largest integer id among them, and 0 when there is none; keys whose
\* suffix is no integer do not count.
C1_NextIdIsOneMoreThanLargest ==
    \A c \in Companies :
        /\ rev = "enh" =>
               enh_get_next_employee_id(store, c, FALSE)
                   = OneMoreThanLargest(StoredIntegerIds(store, enh_employee_prefix(c)))
        /\ rev = "idx" =>
               idx_get_next_employee_id(store, c, FALSE, now + 1)
                   = OneMoreThanLargest(StoredIntegerIds(store, idx_employee_prefix(c)))

\* A form submission that asks for a new employee id.
AssigningSave(e) ==
    /\ e.httpMethod = "POST"
    /\ "formType" \in DOMAIN e.body
    /\ "companyId" \in DOMAIN e.body
    /\ e.body.formType = Employee
    /\ Truthy(Get(e.body, "isNewEmployee", BoolV(FALSE)))
    /\ "employeeId" \notin DOMAIN e.body

EmployeePrefix(c) == IF rev = "enh" THEN enh_employee_prefix(c) ELSE idx_employee_prefix(c)

EmployeeKey(c, e) == IF rev = "enh" THEN enh_employee_key(c, e) ELSE idx_employee_key(c, e)

\* C2: a new-employee save whose storage calls succeed is assigned an id
\* whose record is not yet stored (it overwrites nothing); for a company
\* without employees the first such save is assigned 0, and the next one,
\* the record of employee 0 being the only one stored, is assigned 1.
C2_NewEmployeeIdsAreFresh ==
    [][(/\ AssigningSave(req'.event)
        /\ req'.fail = "none"
        /\ resp'.statusCode = 200)
       => /\ EmployeeKey(req'.event.body.companyId, resp'.body.employeeId)
                 \notin DOMAIN store
          /\ ListKeys(store, EmployeePrefix(req'.event.body.companyId)) = {}
                 => resp'.body.employeeId = IntV(0)
          /\ ListKeys(store, EmployeePrefix(req'.event.body.companyId))
                 = {EmployeeKey(req'.event.body.companyId, IntV(0))}
                 => resp'.body.employeeId = IntV(1)]_vars

\* A successful form submission to the enhanced revision.
enh_Saved(r, p) == rev = "enh" /\ r.event.httpMethod = "POST" /\ p.statusCode = 200

\* C3: a save of the enhanced revision stores the record with the timestamp
\* its first save wrote (the save's own time when it creates the record)
\* and with lastModified equal to the time of this save, which is neither
\* earlier than the timestamp nor earlier than the lastModified it replaces.
C3_TimestampKeptLastModifiedRefreshed ==
    [][enh_Saved(req', resp')
       => /\ store'[resp'.body.filename].json.timestamp
                 = IF resp'.body.filename \in DOMAIN store
                   THEN store[resp'.body.filename].json.timestamp
                   ELSE req'.t
          /\ store'[resp'.body.filename].json.lastModified = req'.t
          /\ store'[resp'.body.filename].json.timestamp
                 <= store'[resp'.body.filename].json.lastModified
          /\ resp'.body.filename \in DOMAIN store
                 => store[resp'.body.filename].json.lastModified
                        <= store'[resp'.body.filename].json.lastModified]_vars

\* A record has just been saved again: its creation time is older than its
\* last modification.
C3_RecordSavedAgain ==
    /\ enh_Saved(req, resp)
    /\ store[resp.body.filename].json.timestamp
           < store[resp.body.filename].json.lastModified

\* A successful submission that stores a completion percentage: a company
\* form of the enhanced revision, any form of the index revision's
\* form-response handler.
PercentageSaved(r, p) ==
    /\ r.event.httpMethod = "POST"
    /\ p.statusCode = 200
    /\ "completionPercentage" \in DOMAIN p.body
    /\ "responses" \in DOMAIN r.event.body

\* The key a successful form submission wrote.
SavedKey(r, p) ==
    IF rev = "enh" THEN p.body.filename
    ELSE IF p.body.formType = Company THEN idx_company_key(p.body.companyId)
    ELSE idx_employee_key(p.body.companyId,
             IF "employeeId" \in DOMAIN p.body THEN p.body.employeeId
             ELSE Get(r.event.body, "employeeId", None))

\* A value that is a non-empty string once trimmed.
NonEmptyTrimmedString(v) == v.t = "str" /\ \E i \in 1..Len(v.v) : v.v[i] # " "

\* 100 * (entries with a non-empty trimmed string) / (entries); 0 for none.
StatedPercentage(R) ==
    IF DOMAIN R = {} THEN Num(0)
    ELSE Frac(100 * Cardinality({q \in DOMAIN R : NonEmptyTrimmedString(R[q])}),
              Cardinality(DOMAIN R))

\* C4 as stated: the completionPercentage stored and returned by a save is
\* 100 * (entries whose value is a non-empty trimmed string) / (entries),
\* and 0 for an empty mapping.
C4_PercentageIsStatedQuotient ==
    PercentageSaved(req, resp)
        => /\ resp.body.completionPercentage = StatedPercentage(req.event.body.responses)
           /\ store[SavedKey(req, resp)].json.completionPercentage
                  = StatedPercentage(req.event.body.responses)

\* A value the code counts as answered: true-like (no null, 0, false or
\* empty string) and not blank as text.
CountsAsAnswered(v) ==
    CASE v.t = "str" -> \E i \in 1..Len(v.v) : v.v[i] # " "
      [] v.t = "int" -> v.v # 0
      [] v.t = "bool" -> v.v
      [] OTHER -> FALSE

CountedEntries(R) == Cardinality({q \in DOMAIN R : CountsAsAnswered(R[q])})

\* p is the integer part of 100 * a / n.
IsIntegerPart(p, a, n) == p.d = 1 /\ p.n * n <= 100 * a /\ 100 * a < (p.n + 1) * n

\* p is the quotient 100 * a / n itself.
IsQuotient(p, a, n) == p.n * n = 100 * a * p.d

IsPercentageOf(p, R) ==
    IF DOMAIN R = {} THEN p = Num(0)
    ELSE IF rev = "enh" THEN IsIntegerPart(p, CountedEntries(R), Cardinality(DOMAIN R))
    ELSE IsQuotient(p, CountedEntries(R), Cardinality(DOMAIN R))

\* C4 as amended: the completionPercentage stored and returned by a save is
\* 0 for an empty mapping and otherwise 100 * (entries counted as answered)
\* / (entries), cut to its integer part by the enhanced revision and kept
\* whole by the index revision.
C4_PercentageOfCountedEntries ==
    PercentageSaved(req, resp)
        => /\ IsPercentageOf(resp.body.completionPercentage, req.event.body.responses)
           /\ store[SavedKey(req, resp)].json.completionPercentage
                  = resp.body.completionPercentage

\* One answered entry of three has just been saved by the enhanced revision.
C4_ThirdSaved ==
    /\ rev = "enh"
    /\ PercentageSaved(req, resp)
    /\ req.event.body.responses = RThird
    /\ resp.body.completionPercentage = Num(33)

CompanyKey(c) == IF rev = "enh" THEN enh_company_key(c) ELSE idx_company_key(c)

HasCompanyRecord(c) == CompanyKey(c) \in DOMAIN store /\ IsJson(store[CompanyKey(c)])

CompanyRecord(c) == JsonLoads(store[CompanyKey(c)])

StoredPercentage(c) == Get(CompanyRecord(c), "completionPercentage", Num(0))

MarkedCompleted(c) ==
    IF rev = "enh" THEN Get(CompanyRecord(c), "explicitlyCompleted", FALSE)
    ELSE Get(CompanyRecord(c), "completed", FALSE)

\* The body of a status query for company c whose storage calls succeed.
StatusOf(c) ==
    IF rev = "enh"
    THEN enh_get_company_status(store, Query(Absent, c, Absent), "none").resp.body
    ELSE idx_get_company_status(store, c, "none").status

\* The in-progress flag(s) reported for company c all equal b: the stored
\* inProgress field, where the record has one, and the status query's.
ReportsInProgress(c, b) ==
    /\ StatusOf(c).companyInProgress = b
    /\ "inProgress" \in DOMAIN CompanyRecord(c) => CompanyRecord(c).inProgress = b

\* C5 as stated: for a stored company record the reported in-progress flag
\* is true iff 0 < completionPercentage < 100 and the record is not marked
\* completed.
C5_InProgressIffStrictlyBetween ==
    \A c \in Companies :
        HasCompanyRecord(c)
            => ReportsInProgress(c, /\ FracLess(Num(0), StoredPercentage(c))
                                    /\ FracLess(StoredPercentage(c), Num(100))
                                    /\ ~MarkedCompleted(c))

\* C5 as amended: for a stored company record the reported in-progress flag
\* is true iff the record is not marked completed and its
\* completionPercentage is above 0 and, in the enhanced revision only,
\* below 100.
C5_InProgressPerRevision ==
    \A c \in Companies :
        HasCompanyRecord(c)
            => ReportsInProgress(c, /\ FracLess(Num(0), StoredPercentage(c))
                                    /\ rev = "enh" => FracLess(StoredPercentage(c), Num(100))
                                    /\ ~MarkedCompleted(c))

\* A record of the index revision saved at 100 percent and kept from
\* completing: the status query reports it in progress.
C5_FullKeptOpen ==
    \E c \in Companies :
        /\ rev = "idx"
        /\ req.event.httpMethod = "POST"
        /\ HasCompanyRecord(c)
        /\ StoredPercentage(c) = Num(100)
        /\ ~MarkedCompleted(c)
        /\ StatusOf(c).companyInProgress

\* C6: every stored company record carries a completionPercentage, equal to
\* the percentage its revision computes from the responses stored with it.
C6_StoredPercentageMatchesResponses ==
    \A k \in DOMAIN store :
        (/\ IsJson(store[k])
         /\ JsonLoads(store[k]).formType = Company)
        => /\ "completionPercentage" \in DOMAIN JsonLoads(store[k])
           /\ JsonLoads(store[k]).completionPercentage
                  = IF rev = "enh"
                    THEN enh_completion_percentage(JsonLoads(store[k]).responses)
                    ELSE idx_completion_percentage(JsonLoads(store[k]).responses)

\* A status query: a GET that is no fetch and no employee listing.
IsStatusQuery(e) ==
    /\ e.httpMethod = "GET"
    /\ rev = "enh" => Get(e.queryStringParameters, "action", None)
                          \notin {GetEmployeeAction, GetCompanyAction}
    /\ rev = "idx" => /\ ~InPath("/responses/employee-list/", e.resource)
                      /\ ~InPath("/responses/employee-data/", e.resource)

\* The company a status query asks about.
StatusCompany(e) ==
    IF rev = "idx" /\ InPath("/responses/company-status/", e.resource)
    THEN Get(e.pathParameters, "companyId", None)
    ELSE Get(e.queryStringParameters, "companyId", None)

\* A status query, its storage calls succeeding, for a company (with a
\* non-empty id) that has no stored company record.
StatusWithoutRecord ==
    /\ IsStatusQuery(req.event)
    /\ req.fail = "none"
    /\ StatusCompany(req.event) \in Companies
    /\ CompanyKey(StatusCompany(req.event)) \notin DOMAIN store

\* The employee records a status query counts: the keys under the company's
\* prefix, in the enhanced revision those with an integer suffix.
CountedEmployeeKeys(c) ==
    IF rev = "enh"
    THEN {k \in ListKeys(store, enh_employee_prefix(c)) :
             ParseInt(Suffix(k, enh_employee_prefix(c))).ok}
    ELSE ListKeys(store, idx_employee_prefix(c))

RecordSaved(r, p) ==
    /\ r.event.httpMethod = "POST"
    /\ p.statusCode = 200
    /\ "formType" \in DOMAIN r.event.body
    /\ "responses" \in DOMAIN r.event.body

\* The fetch of the record a submission saved, by the same companyId and
\* employeeId, in the same revision, its storage read succeeding.
FetchSaved(r, p) ==
    IF rev = "enh"
    THEN IF r.event.body.formType = Company
         THEN enh_get_company_data(store,
                  Query(GetCompanyAction, r.event.body.companyId, Absent), "none")
         ELSE enh_get_employee_data(store,
                  Query(GetEmployeeAction, r.event.body.companyId, p.body.employeeId), "none")
    ELSE IF r.event.body.formType = Company
         THEN handle_get_company_request(store,
                  ActionBody("getCompany", r.event.body.companyId, Absent), "none")
         ELSE handle_get_employee_request(store,
                  ActionBody("getEmployee", r.event.body.companyId, p.body.employeeId), "none")

Fetched(f, R, t) ==
    /\ f.statusCode = 200
    /\ f.body.found = TRUE
    /\ f.body.responses = R
    /\ f.body.lastModified >= t

\* C8: after a successful save of a record with responses R, the fetch of
\* the same record returns found = true, responses equal to R and a
\* lastModified no earlier than the time the save started.
C8_SaveThenFetchRoundTrip ==
    RecordSaved(req, resp)
        => Fetched(FetchSaved(req, resp).resp, req.event.body.responses, req.t)

\* A company or employee fetch.
IsFetch(e) ==
    IF rev = "enh"
    THEN /\ e.httpMethod = "GET"
         /\ Get(e.queryStringParameters, "action", None)
                \in {GetEmployeeAction, GetCompanyAction}
    ELSE \/ e.httpMethod = "GET" /\ InPath("/responses/employee-data/", e.resource)
         \/ /\ e.httpMethod = "POST"
            /\ ~InPath("/responses/save-company", e.resource)
            /\ ~InPath("/responses/save-employee", e.resource)
            /\ Get(e.body, "action", None)
                   \in {StrV(<<"getCompany">>), StrV(<<"getEmployee">>)}

\* C9: a fetch that reads storage makes that one read and writes nothing;
\* when the key is absent it returns 200 with found = false, and when the
\* read fails otherwise it returns 500.
C9_AbsentIsNotFoundOtherFailureIs500 ==
    [][(IsFetch(req'.event) /\ calls' # <<>>)
       => /\ Len(calls') = 1
          /\ calls'[1].op = "get"
          /\ store' = store
          /\ (req'.fail = "none" /\ calls'[1].key \notin DOMAIN store)
                 => (resp'.statusCode = 200 /\ resp'.body.found = FALSE)
          /\ req'.fail = "get" => resp'.statusCode = 500]_vars

\* A fetch has just read a key that storage does not hold.
C9_FetchedAbsentKey ==
    /\ IsFetch(req.event)
    /\ req.fail = "none"
    /\ calls # <<>>
    /\ calls[1].key \notin DOMAIN store
    /\ resp.statusCode = 200
    /\ resp.body.found = FALSE

\* C10: an OPTIONS request returns 200 with the revision's CORS headers,
\* makes no storage call and leaves the store as it was.
C10_OptionsTouchesNothing ==
    [][req'.event.httpMethod = "OPTIONS"
       => /\ resp'.statusCode = 200
          /\ resp'.headers = (IF rev = "enh" THEN enh_cors_headers ELSE idx_cors_headers)
          /\ resp'.headers.AccessControlAllowOrigin = "*"
          /\ calls' = <<>>
          /\ store' = store]_vars

\* An OPTIONS request has been answered while records are stored.
C10_OptionsAfterSave ==
    /\ req.event.httpMethod = "OPTIONS"
    /\ resp.statusCode = 200
    /\ calls = <<>>
    /\ store # <<>>

ActionNames ==
    {StrV(<<"getPresignedUrl">>), StrV(<<"uploadFile">>),
     StrV(<<"getCompany">>), StrV(<<"getEmployee">>)}

\* A POST of the index revision that its router hands to an action handler.
idx_ActionPost(e) ==
    /\ ~InPath("/responses/save-company", e.resource)
    /\ ~InPath("/responses/save-employee", e.resource)
    /\ Get(e.body, "action", None) \in ActionNames

\* The request fields the operation of a GET or POST reads: path, query or
\* body parameters.
RequestFields(e) ==
    IF e.httpMethod = "POST" THEN e.body
    ELSE IF rev = "idx"
            /\ (\/ InPath("/responses/company-status/", e.resource)
                \/ InPath("/responses/employee-list/", e.resource)
                \/ InPath("/responses/employee-data/", e.resource))
    THEN e.pathParameters
    ELSE e.queryStringParameters

\* The fields an operation requires: companyId, with employeeId for an
\* employee fetch and formType for a form submission; fileName, contentType
\* and s3Key for a presigned-URL request.
RequiredFields(e) ==
    IF e.httpMethod = "GET"
    THEN IF rev = "enh"
         THEN IF Get(e.queryStringParameters, "action", None) = GetEmployeeAction
              THEN {"companyId", "employeeId"}
              ELSE {"companyId"}
         ELSE IF InPath("/responses/employee-data/", e.resource)
              THEN {"companyId", "employeeId"}
              ELSE {"companyId"}
    ELSE IF rev = "enh" THEN {"companyId", "formType"}
    ELSE IF InPath("/responses/save-company", e.resource) THEN {"companyId"}
    ELSE IF InPath("/responses/save-employee", e.resource) THEN {"companyId"}
    ELSE IF Get(e.body, "action", None) = StrV(<<"getPresignedUrl">>)
    THEN {"fileName", "contentType", "s3Key"}
    ELSE IF Get(e.body, "action", None) = StrV(<<"uploadFile">>)
    THEN {"fileName", "s3Key"}
    ELSE IF Get(e.body, "action", None) = StrV(<<"getCompany">>) THEN {"companyId"}
    ELSE IF Get(e.body, "action", None) = StrV(<<"getEmployee">>)
    THEN {"companyId", "employeeId"}
    ELSE {"companyId", "formType"}

\* A GET or POST that lacks a field its operation requires.
MissingRequired(e) ==
    /\ e.httpMethod \in {"GET", "POST"}
    /\ \E f \in RequiredFields(e) : f \notin DOMAIN RequestFields(e)

\* C11: a request that lacks a required field is answered with status 400
\* and an error message, and nothing is written to storage.
C11_MissingFieldIs400 ==
    [][MissingRequired(req'.event)
       => /\ resp'.statusCode = 400
          /\ "error" \in DOMAIN resp'.body
          /\ store' = store]_vars

\* A storage call (get, list or put) of the invocation failed with an error
\* other than key-not-found.
StorageCallFailed(r, cs) ==
    /\ r.fail \in {"get", "list", "put"}
    /\ \E i \in 1..Len(cs) : cs[i].op = r.fail

\* C12: an invocation in which a storage call fails with something other
\* than key-not-found stops at that call (the failed call is its last one,
\* made once) and returns status 500.
C12_StorageFailureIs500 ==
    [][StorageCallFailed(req', calls')
       => /\ resp'.statusCode = 500
          /\ \A i \in 1..Len(calls') : calls'[i].op = req'.fail => i = Len(calls')]_vars

\* A POST that saves a company or employee record.
IsSave(e) ==
    /\ e.httpMethod = "POST"
    /\ rev = "idx" => ~idx_ActionPost(e)

\* C13: a save invocation in which a storage call fails with something other
\* than key-not-found leaves the store as it was.
C13_FailedSaveWritesNothing ==
    [][(IsSave(req'.event) /\ StorageCallFailed(req', calls')) => store' = store]_vars

\* The message of the exception a POST raises on its fields before any
\* storage call: the KeyError of a subscript, the ValueError of a check.
ValidationMessage(e) ==
    IF e.httpMethod # "POST" THEN "none"
    ELSE IF rev = "enh"
    THEN IF "companyId" \notin DOMAIN e.body THEN "'companyId'"
         ELSE IF "formType" \notin DOMAIN e.body THEN "'formType'"
         ELSE IF "responses" \notin DOMAIN e.body THEN "'responses'"
         ELSE "none"
    ELSE IF InPath("/responses/save-company", e.resource)
            \/ InPath("/responses/save-employee", e.resource)
    THEN "none"
    ELSE IF Get(e.body, "action", None) = StrV(<<"getPresignedUrl">>)
    THEN IF \A f \in {"fileName", "contentType", "s3Key"} : Truthy(Get(e.body, f, None))
         THEN "none"
         ELSE "Missing required parameters: fileName, contentType, s3Key"
    ELSE IF Get(e.body, "action", None) = StrV(<<"uploadFile">>)
    THEN IF \A f \in {"fileData", "fileName", "s3Key"} : Truthy(Get(e.body, f, None))
         THEN "none"
         ELSE "Missing required parameters: fileData, fileName, s3Key"
    ELSE IF Get(e.body, "action", None) = StrV(<<"getCompany">>)
    THEN IF Truthy(Get(e.body, "companyId", None)) THEN "none" ELSE "Missing companyId"
    ELSE IF Get(e.body, "action", None) = StrV(<<"getEmployee">>)
    THEN IF \A f \in {"companyId", "employeeId"} : Truthy(Get(e.body, f, None))
         THEN "none"
         ELSE "Missing companyId or employeeId"
    ELSE IF \A f \in {"companyId", "formType"} : Truthy(Get(e.body, f, None))
    THEN "none"
    ELSE "Missing required fields: companyId, formType"

\* A call of the invocation (storage or presign) failed.
CallFailed(r, cs) == r.fail # "none" /\ \E i \in 1..Len(cs) : cs[i].op = r.fail

\* The failures a narrower except clause handles: every failed listing, and
\* a failed read of a status query or of the employee listing.
HandledFailure(r) ==
    \/ r.fail = "list"
    \/ r.fail = "get" /\ r.event.httpMethod = "GET" /\ ~IsFetch(r.event)

\* The message of the exception, if any, that the invocation of request r on
\* store st raises and no narrower clause handles.
UnhandledMessage(r, st, cs) ==
    IF ValidationMessage(r.event) # "none" THEN ValidationMessage(r.event)
    ELSE IF CallFailed(r, cs) /\ ~HandledFailure(r) THEN "ClientError"
    ELSE IF /\ IsFetch(r.event)
            /\ cs # <<>>
            /\ cs[1].key \in DOMAIN st
            /\ ~IsJson(st[cs[1].key])
    THEN "JSONDecodeError"
    ELSE "none"

\* C14: every invocation of lambda_handler ends with one response envelope,
\* and an exception that no narrower clause handles is answered with status
\* 500 and a body whose error field carries the exception's message.
C14_EveryInvocationAnswers ==
    [][/\ DOMAIN resp' = {"statusCode", "headers", "body"}
       /\ UnhandledMessage(req', store, calls') # "none"
              => /\ resp'.statusCode = 500
                 /\ "error" \in DOMAIN resp'.body
                 /\ resp'.body.error[Len(resp'.body.error)]
                        = UnhandledMessage(req', store, calls')]_vars

\* The KeyError of a form submission without companyId has been answered.
C14_KeyErrorAnswered ==
    /\ rev = "enh"
    /\ ValidationMessage(req.event) = "'companyId'"
    /\ resp.statusCode = 500
    /\ resp.body.error = <<"'companyId'">>

StatusCodes == {200, 400, 404, 405, 500}

\* C15: every response is an envelope of statusCode, headers and body whose
\* statusCode is 200, 400, 404, 405 or 500 and whose headers carry
\* Access-Control-Allow-Origin: *.
C15_EnvelopeWithCorsHeaders ==
    nops > 0
        => /\ DOMAIN resp = {"statusCode", "headers", "body"}
           /\ resp.statusCode \in StatusCodes
           /\ "AccessControlAllowOrigin" \in DOMAIN resp.headers
           /\ resp.headers.AccessControlAllowOrigin = "*"

\* A request of an unsupported method has been answered with an error
\* envelope that carries the CORS headers.
C15_UnroutedAnswered ==
    /\ req.event.httpMethod \in {"PUT", "DELETE"}
    /\ resp.statusCode \in {404, 405}
    /\ resp.headers.AccessControlAllowOrigin = "*"

\* A fetch, status or listing operation: every GET, and the fetches by
\* action of the index revision.
IsReadOnly(e) ==
    \/ e.httpMethod = "GET"
    \/ /\ rev = "idx"
       /\ e.httpMethod = "POST"
       /\ idx_ActionPost(e)
       /\ e.body.action \in {StrV(<<"getCompany">>), StrV(<<"getEmployee">>)}

\* C16: a fetch, status or listing operation makes no put and leaves the
\* store as it was.
C16_ReadsWriteNothing ==
    [][IsReadOnly(req'.event)
       => /\ store' = store
          /\ \A i \in 1..Len(calls') : calls'[i].op # "put"]_vars

\* A status query has read a bucket that holds records.
C16_StatusReadRecords ==
    /\ IsStatusQuery(req.event)
    /\ resp.statusCode = 200
    /\ Len(calls) = 2
    /\ store # <<>>

\* The ids under which the model's requests address employee records.
EmployeeIds == {IntV(0), IntV(1), StrV(<<"x">>)}

\* The fetch of a company's record on store st, its read succeeding.
FetchCompany(st, c) ==
    IF rev = "enh"
    THEN enh_get_company_data(st, Query(GetCompanyAction, c, Absent), "none")
    ELSE handle_get_company_request(st, ActionBody("getCompany", c, Absent), "none")

\* The fetch of an employee's record on store st, its read succeeding.
FetchEmployee(st, c, e) ==
    IF rev = "enh"
    THEN enh_get_employee_data(st, Query(GetEmployeeAction, c, e), "none")
    ELSE handle_get_employee_request(st, ActionBody("getEmployee", c, e), "none")

ReportsFound(out) == out.resp.statusCode = 200 /\ out.resp.body.found = TRUE

\* C17: no step removes a key from the store, and a record that a fetch
\* reports as found before a step is reported as found after it.
C17_FoundStaysFound ==
    [][/\ DOMAIN store \subseteq DOMAIN store'
       /\ \A c \in Companies :
              /\ ReportsFound(FetchCompany(store, c)) => ReportsFound(FetchCompany(store', c))
              /\ \A e \in EmployeeIds :
                     ReportsFound(FetchEmployee(store, c, e))
                         => ReportsFound(FetchEmployee(store', c, e))]_vars

\* The fileUploads mapping of the record stored under key k (empty when the
\* record has none).
FileUploadsOf(st, k) == Get(JsonLoads(st[k]), "fileUploads", <<>>)

\* m holds every entry of the mapping old except the one for question q.
KeepsOtherEntries(m, old, q) ==
    \A p \in (DOMAIN old) \ {q} : p \in DOMAIN m /\ m[p] = old[p]

\* C18: a save that supplies file metadata for question q stores a record
\* whose fileUploads maps q to that metadata and keeps the entries the
\* record it replaces held for the other questions.
C18_FileMetadataMerged ==
    [][(/\ enh_Saved(req', resp')
        /\ "fileMetadata" \in DOMAIN req'.event.body)
       => /\ req'.event.body.fileMetadata.questionId
                 \in DOMAIN FileUploadsOf(store', resp'.body.filename)
          /\ FileUploadsOf(store', resp'.body.filename)
                 [req'.event.body.fileMetadata.questionId] = req'.event.body.fileMetadata
          /\ resp'.body.filename \in DOMAIN store
                 => KeepsOtherEntries(FileUploadsOf(store', resp'.body.filename),
                                      FileUploadsOf(store, resp'.body.filename),
                                      req'.event.body.fileMetadata.questionId)]_vars

\* A successful submission to the index revision's form-response handler,
\* the one that supports the completion flags.
idx_FormSaved(r, p) == rev = "idx" /\ PercentageSaved(r, p)

\* completeAudit is set, or forceComplete is set, or the percentage is 100
\* and preventAutoComplete is not set.
CompletionCalledFor(body, percentage) ==
    \/ Truthy(Get(body, "completeAudit", BoolV(FALSE)))
    \/ Truthy(Get(body, "forceComplete", BoolV(FALSE)))
    \/ percentage = Num(100) /\ ~Truthy(Get(body, "preventAutoComplete", BoolV(FALSE)))

\* The record is marked completed, with the time t as its completedAt.
MarkedCompletedAt(rec, t) ==
    /\ "completed" \in DOMAIN rec
    /\ rec.completed = TRUE
    /\ "completedAt" \in DOMAIN rec
    /\ rec.completedAt = t

NotMarkedCompleted(rec) == "completed" \notin DOMAIN rec /\ "completedAt" \notin DOMAIN rec

\* C19: the record a form submission stores is marked completed, with the
\* submission's time as completedAt, if completeAudit or forceComplete is
\* set or the percentage is 100 and preventAutoComplete is not set; in every
\* other case it carries neither completed nor completedAt.
C19_CompletedIffCalledFor ==
    idx_FormSaved(req, resp)
        => IF CompletionCalledFor(req.event.body, resp.body.completionPercentage)
           THEN MarkedCompletedAt(JsonLoads(store[SavedKey(req, resp)]), req.t)
           ELSE NotMarkedCompleted(JsonLoads(store[SavedKey(req, resp)]))

\* A half-answered form has been completed by one of the two flags.
C19_CompletedByFlag ==
    /\ idx_FormSaved(req, resp)
    /\ resp.body.completionPercentage = Num(50)
    /\ MarkedCompletedAt(JsonLoads(store[SavedKey(req, resp)]), req.t)

\* C20: in the enhanced revision, whose requests carry no completion signal,
\* no stored company record has explicitlyCompleted = true, whatever its
\* completionPercentage, and a status query reports companyCompleted =
\* false for it.
C20_NeverCompletedByPercentage ==
    rev = "enh"
        => \A c \in Companies :
               HasCompanyRecord(c)
                   => /\ CompanyRecord(c).explicitlyCompleted = FALSE
                      /\ StatusOf(c).companyCompleted = FALSE

\* A company record of the enhanced revision stored with every question
\* answered.
C20_FullNotCompleted ==
    /\ rev = "enh"
    /\ HasCompanyRecord(CoA)
    /\ StoredPercentage(CoA) = Num(100)
    /\ resp.statusCode = 200
    /\ StatusOf(CoA).companyCompleted = FALSE

\* Two processes that have both returned, p having put before q.
BothDone(p, q) ==
    /\ p # q
    /\ procs # <<>>
    /\ procs[p].pc = "done"
    /\ procs[q].pc = "done"
    /\ procs[p].putAt < procs[q].putAt

\* Both are new-employee saves for one company that listed the same keys.
SameListing(p, q) ==
    /\ save_assigns(procs[p].body)
    /\ save_assigns(procs[q].body)
    /\ procs[p].body.companyId = procs[q].body.companyId
    /\ procs[p].listed = procs[q].listed

Succeeded(r, id) ==
    /\ r.statusCode = 200
    /\ "employeeId" \in DOMAIN r.body
    /\ r.body.employeeId = id

\* C21: when two overlapping new-employee saves for one company have listed
\* the same key set, both are given the same employeeId and both return
\* success with it; the record the first wrote is overwritten by the second,
\* so the bucket holds one new record, with the second submission's responses.
C21_SameListingSameId ==
    \A p, q \in Procs :
        BothDone(p, q) /\ SameListing(p, q) =>
            /\ procs[p].id = procs[q].id
            /\ Succeeded(procs[p].resp, procs[p].id)
            /\ Succeeded(procs[q].resp, procs[q].id)
            /\ ListKeys(store, save_prefix(procs[q].body))
                   = procs[q].listed[1] \cup {save_key(procs[q].body, procs[q].id)}
            /\ JsonLoads(store[save_key(procs[q].body, procs[q].id)]) = procs[q].wrote

\* Both submissions succeeded with one id and the first one's responses are lost.
C21_SubmissionLost ==
    \E p, q \in Procs :
        /\ BothDone(p, q) /\ SameListing(p, q)
        /\ procs[p].id = procs[q].id
        /\ Succeeded(procs[p].resp, procs[p].id)
        /\ Succeeded(procs[q].resp, procs[q].id)
        /\ procs[p].body.responses # procs[q].body.responses
        /\ \A k \in DOMAIN store : JsonLoads(store[k]).responses # procs[p].body.responses

\* Two finished saves of the enhanced revision to one record, p having put
\* first and q having read the record before that put.
Overlapped(p, q) ==
    /\ BothDone(p, q)
    /\ rev = "enh"
    /\ save_key(procs[p].body, procs[p].id) = save_key(procs[q].body, procs[q].id)
    /\ procs[q].gotAt < procs[p].putAt

StoredBy(q) == JsonLoads(store[save_key(procs[q].body, procs[q].id)])

\* The creation timestamp of a record built at t over the record read.
KeptTimestamp(existing, t) ==
    IF existing # None /\ "timestamp" \in DOMAIN existing THEN existing.timestamp ELSE t

\* C22: of two overlapping saves to one record both succeed, and the record
\* left is exactly the one built by the save whose put ran last, from what
\* it read before the other's put: its responses and lastModified, and the
\* creation timestamp of the record it read or, when it read none, its own,
\* whatever the first put had stored.
C22_LastPutWins ==
    \A p, q \in Procs :
        Overlapped(p, q) =>
            /\ procs[p].resp.statusCode = 200
            /\ procs[q].resp.statusCode = 200
            /\ StoredBy(q) = procs[q].wrote
            /\ StoredBy(q).responses = procs[q].body.responses
            /\ StoredBy(q).lastModified = procs[q].t
            /\ StoredBy(q).timestamp = KeptTimestamp(procs[q].existing, procs[q].t)
            /\ procs[p].wrote.timestamp = KeptTimestamp(procs[p].existing, procs[p].t)

\* Two overlapping first saves of a company record: the creation timestamp
\* the first put stored is not the one the record ends with, and the first
\* writer's responses are gone.
C22_TimestampReplaced ==
    \E p, q \in Procs :
        /\ Overlapped(p, q)
        /\ procs[p].body.formType = Company
        /\ procs[p].existing = None
        /\ procs[q].existing = None
        /\ procs[p].wrote.timestamp # StoredBy(q).timestamp
        /\ procs[p].body.responses # StoredBy(q).responses

\* A request, other than the preflight, whose body carries one of the actions.
CarriesAction(e) ==
    /\ e.httpMethod \notin {"NONE", "OPTIONS"}
    /\ Get(e.body, "action", None) \in ActionNames

\* What the handler of the action in the body answers and does.
ActionHandler(st, e, t, fail) ==
    IF rev = "enh"
    THEN IF e.body.action = StrV(<<"getEmployee">>)
         THEN enh_get_employee_data(st, e.body, fail)
         ELSE enh_get_company_data(st, e.body, fail)
    ELSE IF e.body.action = StrV(<<"getPresignedUrl">>)
    THEN handle_presigned_url_request(st, e.body, fail)
    ELSE IF e.body.action = StrV(<<"uploadFile">>)
    THEN handle_file_upload_request(st, e.body, t, fail)
    ELSE IF e.body.action = StrV(<<"getCompany">>)
    THEN handle_get_company_request(st, e.body, fail)
    ELSE handle_get_employee_request(st, e.body, fail)

\* The same request with no action in its body.
WithoutAction(e) ==
    [e EXCEPT !.body = [k \in DOMAIN e.body \ {"action"} |-> e.body[k]]]

Handler(st, e, t, fail) ==
    IF rev = "enh" THEN enh_lambda_handler(st, e, t, fail)
    ELSE idx_lambda_handler(st, e, t, fail)

\* The step is the invocation answered and carried out as out says.
Did(out) == resp' = out.resp /\ store' = out.store /\ calls' = out.calls

\* C23 (as stated): a request whose body carries one of the four actions is
\* answered by that action's handler, whatever its method (other than
\* OPTIONS) and whatever its resource path.
C23_ActionDispatchedAlways ==
    [][CarriesAction(req'.event)
       => Did(ActionHandler(store, req'.event, req'.t, req'.fail))]_vars

\* C23 (amended): the index revision hands a POST whose path is neither
\* save-company nor save-employee and whose body carries one of the four
\* actions to that action's handler; every other request carrying an action
\* is answered as the same request without the action is.
C23_ActionDispatchedOnLegacyPost ==
    [][CarriesAction(req'.event)
       => IF rev = "idx" /\ req'.event.httpMethod = "POST" /\ idx_ActionPost(req'.event)
          THEN Did(ActionHandler(store, req'.event, req'.t, req'.fail))
          ELSE Did(Handler(store, WithoutAction(req'.event), req'.t, req'.fail))]_vars

\* A POST to /responses with action getCompany in its body has been answered
\* by the company fetch, which read the record saved before.
C23_FetchedByAction ==
    /\ rev = "idx"
    /\ req.event.httpMethod = "POST"
    /\ idx_ActionPost(req.event)
    /\ req.event.body.action = StrV(<<"getCompany">>)
    /\ resp.statusCode = 200
    /\ calls = <<Call("get", idx_company_key(CoA))>>
    /\ idx_company_key(CoA) \in DOMAIN store

\* A request with no action in its body and, in the index revision, a resource
\* path that is none of the known sub-paths.
Generic(e) ==
    /\ e.httpMethod # "NONE"
    /\ Get(e.body, "action", None) \notin ActionNames
    /\ rev = "idx" => \A piece \in {"/responses/company-status/", "/responses/employee-list/",
                                    "/responses/employee-data/", "/responses/save-company",
                                    "/responses/save-employee"} : ~InPath(piece, e.resource)

QueryAction(e) == Get(e.queryStringParameters, "action", None)

FormResponse(st, e, t, fail) ==
    IF rev = "enh" THEN enh_save_response(st, e.body, t, fail)
    ELSE handle_form_response(st, e.body, t, fail)

\* The fetch a query's action names.
FetchByQuery(st, e, fail) ==
    IF rev = "enh"
    THEN IF QueryAction(e) = GetEmployeeAction
         THEN enh_get_employee_data(st, e.queryStringParameters, fail)
         ELSE enh_get_company_data(st, e.queryStringParameters, fail)
    ELSE IF QueryAction(e) = GetEmployeeAction
         THEN handle_get_employee_request(st, e.queryStringParameters, fail)
         ELSE handle_get_company_request(st, e.queryStringParameters, fail)

StatusSummary(st, e, fail) ==
    IF rev = "enh" THEN enh_get_company_status(st, e.queryStringParameters, fail)
    ELSE handle_get_request(st, e.queryStringParameters, fail)

\* No handler is reached: nothing is read or written, and the answer is the
\* revision's 405 or 404.
Unrouted ==
    /\ store' = store
    /\ calls' = <<>>
    /\ resp'.statusCode = IF rev = "enh" THEN 405 ELSE 404

\* Generic handling in which the revisions in fetching have their GETs with a
\* query action answered by the fetch.
GenericHandling(fetching) ==
    Generic(req'.event)
       => CASE req'.event.httpMethod = "POST"
                 -> Did(FormResponse(store, req'.event, req'.t, req'.fail))
            [] req'.event.httpMethod = "GET"
                 -> IF rev \in fetching
                       /\ QueryAction(req'.event) \in {GetEmployeeAction, GetCompanyAction}
                    THEN Did(FetchByQuery(store, req'.event, req'.fail))
                    ELSE Did(StatusSummary(store, req'.event, req'.fail))
            [] req'.event.httpMethod = "OPTIONS" -> TRUE
            [] OTHER -> Unrouted

\* C24 (as stated): with no action in the body and no known sub-path, a POST
\* is a form-response submission, a GET with query action getEmployee or
\* getCompany the corresponding fetch, any other GET the status summary, and
\* any other method but OPTIONS reaches no handler, touches no storage and is
\* answered 404 or 405.
C24_GenericHandling == [][GenericHandling({"enh", "idx"})]_vars

\* What the revisions do: as stated, except that only the enhanced revision
\* answers a GET with query action getEmployee or getCompany by the fetch;
\* the index revision answers every such GET with the status summary.
GenericHandlingByRevision == [][GenericHandling({"enh"})]_vars

\* The index revision has answered a GET carrying action=getCompany with the
\* status summary of the company.
QueryActionIgnored ==
    /\ rev = "idx"
    /\ Generic(req.event)
    /\ req.event.httpMethod = "GET"
    /\ QueryAction(req.event) = GetCompanyAction
    /\ resp.statusCode = 200
    /\ "employeeCount" \in DOMAIN resp.body
    /\ idx_company_key(CoA) \in DOMAIN store

\* The number an entry of employeeIds stands for, if any: the entry itself in
\* the enhanced revision, the integer its text denotes in the index revision.
IdNumber(x) == IF rev = "enh" THEN [ok |-> TRUE, v |-> x] ELSE ParseInt(x)

\* ids lists one id per key of keys, in ascending numeric order.
NumericallyAscending(ids, keys, prefix) ==
    /\ Len(ids) = Cardinality(keys)
    /\ \A i \in 1..Len(ids) : IdNumber(ids[i]).ok
    /\ {IdNumber(ids[i]).v : i \in 1..Len(ids)}
           = {ParseInt(Suffix(k, prefix)).v : k \in {x \in keys : ParseInt(Suffix(x, prefix)).ok}}
    /\ \A i, j \in 1..Len(ids) : i < j => IdNumber(ids[i]).v < IdNumber(ids[j]).v

\* The text of s after its last "/".
AfterLastSlash(s) ==
    IF \E i \in 1..Len(s) : s[i] = "/"
    THEN SubSeq(s, (CHOOSE i \in 1..Len(s) :
                       s[i] = "/" /\ \A j \in (i + 1)..Len(s) : s[j] # "/") + 1, Len(s))
    ELSE s

\* ids lists the id text of every key of keys (what follows the key's last
\* "/", without ".json"), in ascending text order.
TextuallyAscending(ids, keys, prefix) ==
    /\ Len(ids) = Cardinality(keys)
    /\ {ids[i] : i \in 1..Len(ids)} = {AfterLastSlash(Suffix(k, prefix)) : k \in keys}
    /\ \A i, j \in 1..Len(ids) : i < j => StrLe(ids[i], ids[j])

\* max(employeeIds) + 1, or 0 when there are none.
NextAfter(ids) == OneMoreThanLargest({ids[i] : i \in 1..Len(ids)})

\* The company record of c, if one is stored, can be decoded.
StatusReadable(c) == CompanyKey(c) \in DOMAIN store => IsJson(store[CompanyKey(c)])

\* C25 (as stated): in every store state the status of a company reports
\* employeeCount equal to the number of employee records stored under the
\* company's prefix, employeeIds their ids in ascending numeric order and,
\* where exposed, nextEmployeeId = max(employeeIds) + 1, or 0 without any.
C25_StatusListsEveryEmployee ==
    \A c \in Companies :
        /\ StatusOf(c).employeeCount = Cardinality(ListKeys(store, EmployeePrefix(c)))
        /\ NumericallyAscending(StatusOf(c).employeeIds,
                                ListKeys(store, EmployeePrefix(c)), EmployeePrefix(c))
        /\ "nextEmployeeId" \in DOMAIN StatusOf(c)
               => StatusOf(c).nextEmployeeId = NextAfter(StatusOf(c).employeeIds)

\* What the status reports instead: the enhanced revision counts and lists,
\* in ascending numeric order, the ids of the employee keys whose suffix is an integer,
\* with nextEmployeeId = max(employeeIds) + 1 or 0; the index revision
\* counts every key under the prefix and lists their id texts in ascending
\* text order, or reports no employee at all when the stored company record
\* cannot be decoded.
StatusListsCountedEmployees ==
    \A c \in Companies :
        /\ StatusOf(c).employeeCount = Len(StatusOf(c).employeeIds)
        /\ rev = "enh" =>
               /\ NumericallyAscending(StatusOf(c).employeeIds,
                                       CountedEmployeeKeys(c), EmployeePrefix(c))
               /\ "nextEmployeeId" \in DOMAIN StatusOf(c)
               /\ StatusOf(c).nextEmployeeId = NextAfter(StatusOf(c).employeeIds)
        /\ rev = "idx" =>
               /\ "nextEmployeeId" \notin DOMAIN StatusOf(c)
               /\ IF StatusReadable(c)
                  THEN TextuallyAscending(StatusOf(c).employeeIds,
                                          CountedEmployeeKeys(c), EmployeePrefix(c))
                  ELSE StatusOf(c).employeeIds = <<>>

\* The index revision lists employee 10 before employee 2.
TenBeforeTwo ==
    /\ rev = "idx"
    /\ StatusOf(CoA).employeeCount = 2
    /\ StatusOf(CoA).employeeIds = <<Str(IntV(10)), Str(IntV(2))>>

\* A new-employee save whose listing fails while its other calls succeed.
ListingFailed(r) == AssigningSave(r.event) /\ r.fail = "list"

\* The save was answered 200 with the employee id.
AssignedId(p, id) ==
    /\ p.statusCode = 200
    /\ "employeeId" \in DOMAIN p.body
    /\ p.body.employeeId = IntV(id)

\* C26: when the listing fails during employee-id assignment, the assignment
\* does not raise: the save goes on and succeeds with a fallback id derived
\* from the current time.
C26_FallbackFromClock ==
    [][ListingFailed(req') => AssignedId(resp', req'.t % FallbackModulus)]_vars

\* What the revisions do: neither raises; the index revision falls back to
\* the clock, the enhanced revision to the constant 0.
FallbackByRevision ==
    [][ListingFailed(req')
       => AssignedId(resp', IF rev = "idx" THEN req'.t % FallbackModulus ELSE 0)]_vars

\* Refuted in both revisions: the fallback id is never that of a stored
\* employee whose record the save then replaces.
FallbackNeverReplaces ==
    [][~(/\ ListingFailed(req')
         /\ resp'.statusCode = 200
         /\ EmployeeKey(req'.event.body.companyId, resp'.body.employeeId) \in DOMAIN store
         /\ store'[EmployeeKey(req'.event.body.companyId, resp'.body.employeeId)]
               # store[EmployeeKey(req'.event.body.companyId, resp'.body.employeeId)])]_vars

\* A company-status check of the index revision, answered 200.
StatusChecked ==
    /\ rev = "idx"
    /\ req.event.httpMethod = "GET"
    /\ InPath("/responses/company-status/", req.event.resource)
    /\ resp.statusCode = 200

\* C27: the company-status check returns one label: 'completed' when the
\* companyCompleted it reports is true, otherwise 'in-progress' when the
\* companyInProgress it reports is true, otherwise 'not-started'; a company
\* with no stored record is labelled 'not-started'.
C27_OneStatusLabel ==
    StatusChecked
        => /\ "status" \in DOMAIN resp.body
           /\ resp.body.status \in {"completed", "in-progress", "not-started"}
           /\ resp.body.status = "completed" <=> resp.body.companyCompleted
           /\ resp.body.status = "in-progress"
                  <=> ~resp.body.companyCompleted /\ resp.body.companyInProgress
           /\ resp.body.status = "not-started"
                  <=> ~resp.body.companyCompleted /\ ~resp.body.companyInProgress
           /\ idx_company_key(StatusCompany(req.event)) \notin DOMAIN store
                  => resp.body.status = "not-started"

\* The check of a company whose stored record is half answered: 'in-progress'.
C27_LabelledInProgress ==
    /\ StatusChecked
    /\ resp.body.status = "in-progress"
    /\ idx_company_key(StatusCompany(req.event)) \in DOMAIN store

MetadataPrefix == <<"uploads", "/", "metadata", "/">>

\* A POST of the index revision handed to the handler of the given action.
FileRequest(r, action) ==
    /\ rev = "idx"
    /\ r.event.httpMethod = "POST"
    /\ idx_ActionPost(r.event)
    /\ r.event.body.action = StrV(<<action>>)

\* The metadata of an uploaded file, as a caller of save_file_metadata passes it.
UploadedFile ==
    [fileName |-> Pdf, fileSize |-> 1, fileType |-> PdfType, s3Key |-> UploadKey]

\* The bucket after an explicit call of save_file_metadata for company c.
Registered(st, c, t) == save_file_metadata(st, c, None, "q1", UploadedFile, "u1", t, "none").store

NextNewEmployee(c) ==
    enh_save_response(store, SaveBody(c, Employee, RHalf, Absent, IsNew, Absent),
                      now + 1, "none")

\* C29: in the enhanced revision, whose status exposes nextEmployeeId, the
\* nextEmployeeId of a company's status is the employeeId the next
\* new-employee save for the company is given, in every reachable store.
C29_StatusPredictsNextId ==
    rev = "enh" =>
        \A c \in Companies :
            AssignedId(NextNewEmployee(c).resp, StatusOf(c).nextEmployeeId)

\* What holds instead: the two agree unless the company's stored integer ids
\* are all below -1, when the status gives max + 1 and the save is given 0.
StatusPredictsNextIdFromMinusOne ==
    rev = "enh" =>
        \A c \in Companies :
            IF \A i \in StoredIntegerIds(store, enh_employee_prefix(c)) : i < -1
            THEN AssignedId(NextNewEmployee(c).resp, 0)
            ELSE AssignedId(NextNewEmployee(c).resp, StatusOf(c).nextEmployeeId)

\* A form or section save answered 200.
Saved(r, p) == IsSave(r.event) /\ p.statusCode = 200 /\ "companyId" \in DOMAIN r.event.body

\* Whether the save is one of a company record.
SavesCompany(e) ==
    IF rev = "idx" /\ InPath("/responses/save-company", e.resource) THEN TRUE
    ELSE IF rev = "idx" /\ InPath("/responses/save-employee", e.resource) THEN FALSE
    ELSE Get(e.body, "formType", None) = Company

\* The employee id of the save: the one in the body or, for a new employee,
\* the one assigned and returned.
SavedEmployeeId(e, p) ==
    IF "employeeId" \in DOMAIN e.body THEN e.body.employeeId
    ELSE IF "employeeId" \in DOMAIN p.body THEN p.body.employeeId
    ELSE None

\* The key its (companyId, formType, employeeId) determine.
KeyOfSave(e, p) ==
    IF SavesCompany(e) THEN CompanyKey(e.body.companyId)
    ELSE EmployeeKey(e.body.companyId, SavedEmployeeId(e, p))

\* What the bucket st holds and reports of company c: its company record,
\* its employee records, its employee count and its next employee id.
CompanyView(st, c) ==
    [record |-> IF CompanyKey(c) \in DOMAIN st THEN <<st[CompanyKey(c)]>> ELSE <<>>,
     employees |-> [k \in ListKeys(st, EmployeePrefix(c)) |-> st[k]],
     count |-> IF rev = "enh"
               THEN enh_get_company_status(st, [companyId |-> c], "none").resp.body.employeeCount
               ELSE idx_get_company_status(st, c, "none").status.employeeCount,
     next |-> IF rev = "enh" THEN enh_get_next_employee_id(st, c, FALSE)
              ELSE idx_get_next_employee_id(st, c, FALSE, 0)]

\* The step wrote exactly the key k.
WroteOnly(k) ==
    /\ {i \in 1..Len(calls') : calls'[i].op = "put"} # {}
    /\ \A i \in 1..Len(calls') : calls'[i].op = "put" => calls'[i].key = k
    /\ Cardinality({i \in 1..Len(calls') : calls'[i].op = "put"}) = 1
    /\ DOMAIN store' = DOMAIN store \cup {k}
    /\ \A x \in DOMAIN store : x # k => store'[x] = store[x]

\* The save left every company of cs other than its own as it was.
Isolated(cs) ==
    /\ WroteOnly(KeyOfSave(req'.event, resp'))
    /\ \A c \in cs : c # req'.event.body.companyId
                         => CompanyView(store', c) = CompanyView(store, c)
    /\ SavesCompany(req'.event)
           => \A c \in cs : CompanyView(store', c).employees = CompanyView(store, c).employees

\* C30: every successful save writes exactly one key, the one its
\* (companyId, formType, employeeId) determine, and leaves every other key
\* as it was; it changes neither the company record nor the employee
\* records, employee count or next employee id of any other company; and a
\* company save changes no employee record.
C30_SavesAreIsolated ==
    [][Saved(req', resp') => Isolated(Companies \cup {CoNested})]_vars

\* What holds instead: the same, of the saves for company ids without "/".
SavesOfPlainIdsAreIsolated ==
    [][Saved(req', resp') /\ req'.event.body.companyId \in Companies
       => Isolated(Companies \cup {CoNested})]_vars

\* An employee save for a company with a non-empty id has just returned
\* success with an integer employeeId that is at least `least`.
EmployeeSavedFrom(least) ==
    /\ req.event.httpMethod = "POST"
    /\ resp.statusCode = 200
    /\ "companyId" \in DOMAIN req.event.body
    /\ Truthy(req.event.body.companyId)
    /\ ~SavesCompany(req.event)
    /\ "employeeId" \in DOMAIN resp.body
    /\ resp.body.employeeId.t = "int"
    /\ resp.body.employeeId.v >= least

\* A later save of responses r for employee e of company c: the form
\* submission and, in the index revision, the section save.
LaterSaves(c, e, r) ==
    IF rev = "enh"
    THEN {enh_save_response(store, SaveBody(c, Employee, r, e, Absent, Absent),
                            now + 1, "none")}
    ELSE {handle_form_response(store, SaveBody(c, Employee, r, e, Absent, Absent),
                               now + 1, "none"),
          handle_save_employee(store, SectionBody(c, e, FormData(r, Absent)),
                               now + 1, "none")}

\* The save was accepted and the employee's record now holds the responses r.
Updated(out, c, e, r) ==
    /\ out.resp.statusCode = 200
    /\ EmployeeKey(c, e) \in DOMAIN out.store
    /\ JsonLoads(out.store[EmployeeKey(c, e)]).responses = r
    /\ \A k \in DOMAIN store : k # EmployeeKey(c, e) => out.store[k] = store[k]

\* The id is accepted by the saves and the fetch that follow.
Accepted(c, e) ==
    /\ \A out \in LaterSaves(c, e, RThird) : Updated(out, c, e, RThird)
    /\ ReportsFound(FetchEmployee(store, c, e))

\* C31: once an employee save for (company, n) has returned success with
\* employeeId n, for any n >= 0, a later save for (company, n) updates that
\* record and a later fetch of (company, n) returns found = true.
C31_AssignedIdAccepted ==
    EmployeeSavedFrom(0) => Accepted(req.event.body.companyId, resp.body.employeeId)

\* What holds instead: the same of every id n >= 1 in both revisions, and of
\* every n >= 0 in the enhanced revision.
PositiveIdAccepted ==
    EmployeeSavedFrom(IF rev = "enh" THEN 0 ELSE 1)
        => Accepted(req.event.body.companyId, resp.body.employeeId)

\* The stored objects that are records: uploaded files are not.
Records == {k \in DOMAIN store : IsJson(store[k])}

\* The key the fields of a record derive: the company key of its companyId
\* when its formType is 'company', the employee key of its companyId and
\* employeeId when its formType is 'employee'.
KeyOfRecord(rec) ==
    IF rec.formType = Company THEN <<CompanyKey(rec.companyId)>>
    ELSE IF rec.formType = Employee /\ "employeeId" \in DOMAIN rec
    THEN <<EmployeeKey(rec.companyId, rec.employeeId)>>
    ELSE <<>>

\* C32: every stored company or employee record sits at the key derived
\* from its own fields: its companyId and, for an employee record, its
\* employeeId are those of the key, and its formType is the key's kind.
C32_RecordsAtOwnKey ==
    \A k \in Records : KeyOfRecord(JsonLoads(store[k])) = <<k>>

\* What holds instead: the same of the records whose save named the
\* formType 'company' or 'employee'.
KnownFormsAtOwnKey ==
    \A k \in Records :
        JsonLoads(store[k]).formType \in {Company, Employee}
            => KeyOfRecord(JsonLoads(store[k])) = <<k>>

====
